---------------------------- MODULE Spec2Model ----------------------------
(***************************************************************************)
(* State-machine model of the GlobeMap component (React + mapbox-gl).      *)
(*                                                                         *)
(* The repository holds several versions of the component.  Three of them *)
(* are modelled here, each as its own specification over one shared set    *)
(* of variables:                                                           *)
(*                                                                         *)
(*   A  src/unnamed/part_000, lines 11-323                                 *)
(*      layer buttons whose handler rebuilds terrain and buildings after   *)
(*      a style load.              Actions carry the suffix A.             *)
(*   F  src/frontend/src/components/GlobeMap.jsx                           *)
(*      orbit with pause/resume timer, boundary highlight, basemap swap,   *)
(*      simulation runs and wind scaling, unmount cleanup.                 *)
(*                                 Actions carry the suffix F.             *)
(*   B  src/unnamed/part_000, lines 325-768                                *)
(*      2D arrow renderer, 3D point-cloud layer, resetGlobe, toggle3D.     *)
(*      Actions carry the suffix B.                                        *)
(*                                                                         *)
(* The deck.gl WindLayer of src/unnamed/part_001 is modelled next to them, *)
(* with actions named after its methods.                                   *)
(*                                                                         *)
(* Every action is one handler (or one continuation of an async handler,   *)
(* from one await to the next), executed atomically: JavaScript is         *)
(* single-threaded and run-to-completion.                                  *)
(*                                                                         *)
(* The mapping engine is the environment.  What is modelled of it:         *)
(*   - setStyle(url) discards every source and layer that was added by     *)
(*     the program and starts loading; "style.load" ends the loading;      *)
(*   - while a style is loading getSource/getLayer find nothing and        *)
(*     addSource/addLayer throw ("Style is not done loading");             *)
(*   - an event runs the handlers registered with on() and then the ones   *)
(*     registered with once(), those the on() handlers just added included;*)
(*   - isStyleLoaded() is false while a style is loading; otherwise the    *)
(*     engine may answer either way (its sources may still be loading);    *)
(*   - dragstart / zoomstart / moveend are events the engine may emit;     *)
(*   - after remove() every call on the map throws.                        *)
(*                                                                         *)
(* Units: bearings are integers in units of 0.05 degree (so 0.05 -> 1,     *)
(* 0.2 -> 4, 30 -> 600, 360 -> 7200); time is in seconds (5000 ms -> 5);   *)
(* particle positions are in units of 0.0001 degree, arrow lengths in half *)
(* pixels, headings in degrees.  F's wind speed is in half metres per      *)
(* second and its flux amounts in quarter litres; WindLayer positions are  *)
(* in half degrees.                                                        *)
(***************************************************************************)
EXTENDS Integers, Sequences, FiniteSets, TLC

VARIABLES
    \* ---- mapping engine (mapRef.current) ----
    mapLoaded,        \* the map's "load" event has fired (handlers registered)
    styleLoading,     \* a style is being loaded (between setStyle and style.load)
    sources,          \* ids of the sources registered in the current style
    layers,           \* ids of the layers the program added to the current style
    highlightSrc,     \* data of the "highlight" source, NoFeature when absent
    onceMoveend,      \* a map.once("moveend", ...) handler is registered
    onceStyleLoad,    \* B: the map.once("style.load", fn) handlers, in order
    mapRemoved,       \* map.remove() was called
    markers,          \* the markers attached to the map, each [id, city]
    flyTarget,        \* target of the last flyTo
    flightEnd,        \* time at which the camera flight in progress arrives
    transition,       \* projection transition whose camera flight is in progress
    projection,       \* B: "globe" | "mercator"
    \* ---- refs and React state of the component ----
    rotating,         \* rotatingRef.current
    bearing,          \* bearingRef.current, in units of 0.05 degree
    mode,             \* modeRef.current
    resumeTimer,      \* deadline of the pending resume timer, NoTimer if none
    animFrame,        \* a requestAnimationFrame(animateOrbit) is pending
    highlightFeature, \* highlightFeatureRef.current (F) / highlightDataRef.current (B)
    selectedCity,     \* React state selectedCity
    markerRef,        \* markerRef.current: the last marker created, NoMarker if null
    activeLayer,      \* React state activeLayer (F) / activeBase (B)
    unmounted,        \* the component was unmounted
    show3D,           \* B: React state show3D
    windSeries,       \* B: windSeriesRef.current
    flowFrame,        \* B: flowFrameRef.current
    loops,            \* B: the live draw loops; each entry is the show3D its closure captured
    particleArray,    \* B: particleArray.current, a sequence of [age, lon, lat]
    canvas,           \* B: the arrows on the overlay canvas, each [heading, len]
    gpuAlloc,         \* B: point-cloud resource sets (geometry + WebGLRenderer) created and never disposed
    results,          \* B: React state results
    loading,          \* React state loading
    rawResults,       \* F: React state rawResults, what the backend answered
    windSpeed,        \* F: React state windSpeed, in half metres per second
    resultsF,         \* F: React state results, what the panel displays
    \* ---- WindLayer (src/unnamed/part_001) ----
    particles,        \* this.state.particles, a sequence of [lon, lat]; <<>> before initializeState
    nUpdates,         \* updateParticles calls so far
    \* ---- requests in flight ----
    boundaryFetches,  \* set of [id, city]: /boundary requests not yet answered
    fluxFetches,      \* B: set of [id, city, show3D]: /flux requests not yet answered
    nFetch,           \* number of requests issued so far (next id)
    nSwaps,           \* number of setStyle calls so far
    \* ---- platform ----
    now,              \* wall clock, seconds
    frames,           \* display frames elapsed
    \* ---- observation of the last step ----
    cmds,             \* the engine commands the last step issued, in order
    lastOp,           \* name of the last handler
    lastResp          \* what the request of the last continuation came back with

engineVars == <<mapLoaded, styleLoading, sources, layers, highlightSrc,
                onceMoveend, onceStyleLoad, mapRemoved, markers, flyTarget, flightEnd, transition,
                projection>>
orbitVars  == <<rotating, bearing, mode, resumeTimer, animFrame>>
selVars    == <<highlightFeature, selectedCity, markerRef, activeLayer>>
flowVars   == <<show3D, windSeries, flowFrame, loops, particleArray, canvas,
                gpuAlloc, results, loading, fluxFetches>>
scaleVars  == <<rawResults, windSpeed, resultsF>>
windLayerVars == <<particles, nUpdates>>
vars == <<engineVars, orbitVars, selVars, flowVars, scaleVars, windLayerVars, unmounted,
          boundaryFetches, nFetch, nSwaps, now, frames, cmds, lastOp, lastResp>>

-----------------------------------------------------------------------------
(* Bounds of the model *)

\* location selections plus simulation runs issued in one behaviour
MaxRequests == 2
\* wall-clock horizon, seconds
MaxTime == 6
\* display frames in one behaviour of the full specifications
MaxFrames == 2
\* display frames in one behaviour of the orbit-only specification
OrbitFrames == 7300
\* basemap swaps in one behaviour
MaxSwaps == 2
\* draw loops started in one behaviour
MaxLoops == 2
\* point-cloud resource sets created in one behaviour
MaxAlloc == 2
\* particles of the 2D renderer (N = 200 in the program)
NParticles == 1
\* once("style.load") handlers waiting at one time
MaxPending == 3
\* display frames in one behaviour of the particle specification
ParticleFrames == 104
\* requests issued in one behaviour of the simulation-run specification
RunRequests == 3
\* particles of the WindLayer (props.numParticles; 500 when the prop is absent)
numParticles == 1
\* updateParticles calls in one behaviour
MaxUpdates == 5

(* Program constants *)

\* bearingRef.current += 0.05 (globe mode), in units of 0.05 degree
GlobeStep == 1
\* bearingRef.current += 0.2 (focus mode)
FocusStep == 4
\* bearingRef.current = 30 on arrival
ArrivalBearing == 600
\* setTimeout(..., 5000)
ResumeDelay == 5
\* flyTo({..., duration: 4000})
FlyDuration == 4
\* if (++p.age > 300) respawn
AgeCap == 300
\* Math.min(18, speed * 0.5), in half pixels
ArrowCap == 36
\* driftStep = 0.0015 + ..., in units of 0.0001 degree
DriftBase == 15
\* Math.min(0.004, speed * 0.0003): the cap, in units of 0.0001 degree
DriftCap == 40
\* speed * 0.0003, in units of 0.0001 degree per m/s
DriftPerSpeed == 3
\* the wind-speed slider: min="0.5", in half metres per second
SliderMin == 1
\* the wind-speed slider: max="10", in half metres per second
SliderMax == 20
\* useState(2), in half metres per second
DefaultWind == 4
\* scaling = windSpeed / 2.0: the divisor for a speed in half metres per second
ScalingDen == 4
\* WindLayer: 180 degrees of longitude, in half degrees
LonMax == 360
\* WindLayer: 90 degrees of latitude, in half degrees
LatMax == 180

\* 360 degrees in units of 0.05 degree
FullTurn == 360 * 20

Cities == {"Paris", "Pune"}
NoCity == "none"
NoTimer == 0 - 1
NoMarker == [id |-> 0, city |-> NoCity]
NoFeature == <<>>
NoResults == [id |-> 0, data |-> "null"]
NoTransition == "none"
\* no request was answered in the last step
NoResponse == "none"
\* the polygon the backend returns for a city
Boundary(c) == <<"polygon", c>>
Features == {Boundary(c) : c \in Cities}
\* what a /boundary request can come back with
BoundaryResponses == {"geojson", "error", "throw"}

\* what a /flux request can come back with
FluxResponses == {"series1", "series2", "noSeries", "throw"}
\* data.wind_series || [] of a response; a frame is [direction_deg, speed_ms]
WindSeriesOf(resp) ==
    CASE resp = "series1" -> <<[direction_deg |-> 90, speed_ms |-> 4]>>
      [] resp = "series2" -> <<[direction_deg |-> 0, speed_ms |-> 2],
                               [direction_deg |-> 270, speed_ms |-> 40]>>
      [] OTHER -> <<>>
\* F: rawResults === null.  A result is [kind, error, net_flux_L, demand_L,
\* flux_to_demand_ratio, wind_speed_ms, daily_flux_series]; amounts are in
\* quarter litres and a ratio is the pair [num, den] of the division
NoRaw == [kind |-> "null", error |-> "", net_flux_L |-> 0, demand_L |-> 0,
          flux_to_demand_ratio |-> [num |-> 0, den |-> 0], wind_speed_ms |-> 0,
          daily_flux_series |-> <<>>]
\* F: the object { error: msg } that the catch block stores
ErrorRaw(msg) == [NoRaw EXCEPT !.kind = "error", !.error = msg]
\* F: what a /flux request can come back with: two results, a response that
\* is not ok, a rejected fetch
RawResponses == {"flux1", "flux2", "notOk", "throw"}
\* F: what runSimulation hands to setRawResults for a response; the backend
\* computes with wind=2 and its amounts are whole litres
RawOf(resp) ==
    CASE resp = "flux1" ->
           [kind |-> "data", error |-> "", net_flux_L |-> 8, demand_L |-> 16,
            flux_to_demand_ratio |-> [num |-> 8, den |-> 16],
            wind_speed_ms |-> DefaultWind,
            daily_flux_series |-> <<[date |-> 1, flux_L |-> 12],
                                    [date |-> 2, flux_L |-> 0 - 4]>>]
      [] resp = "flux2" ->
           [kind |-> "data", error |-> "", net_flux_L |-> 0 - 40, demand_L |-> 12,
            flux_to_demand_ratio |-> [num |-> 0 - 40, den |-> 12],
            wind_speed_ms |-> DefaultWind,
            daily_flux_series |-> <<[date |-> 1, flux_L |-> 0 - 40]>>]
      [] resp = "notOk" -> ErrorRaw("Backend error")
      [] OTHER -> ErrorRaw("Failed to fetch")
\* toggle3D's default centre when no city is selected
DefaultAnchor == "Bengaluru"

Min(a, b) == IF a < b THEN a ELSE b

\* Math.sin and Math.cos of a heading in degrees, for the multiples of 90
\* that the headings of WindSeriesOf are
Sin(h) == CASE h = 90 -> 1 [] h = 270 -> 0 - 1 [] OTHER -> 0
Cos(h) == CASE h = 0 -> 1 [] h = 180 -> 0 - 1 [] OTHER -> 0

\* the centre the camera is sent to, [lon, lat] in units of 0.0001 degree
CentreOf(target) ==
    CASE target = "Paris"       -> [lon |-> 23522, lat |-> 488566]
      [] target = "Pune"        -> [lon |-> 738567, lat |-> 185204]
      [] target = DefaultAnchor -> [lon |-> 775946, lat |-> 129716]
      [] OTHER                  -> [lon |-> 0, lat |-> 200000]
\* map.getBounds(): the whole globe in the initial and the reset view, else
\* the surroundings of the place the camera was last sent to
Bounds ==
    IF flyTarget \in {NoCity, "globe"}
    THEN [west |-> 0 - 1800000, east |-> 1800000,
          south |-> 0 - 850000, north |-> 850000]
    ELSE LET c == CentreOf(flyTarget)
         IN  [west |-> c.lon - 1000, east |-> c.lon + 1000,
              south |-> c.lat - 500, north |-> c.lat + 500]

\* the values Math.random() is given here, in thousandths: the two ends;
\* the draws of one placement (lon, lat, age) are taken equal
RandomDraws == {0, 999}
\* a particle placed in bounds b by the random draw r, with the given age:
\* west + r * (east - west), the extents being whole thousands of units
Spawn(b, r, a) ==
    [age |-> a,
     lon |-> b.west + r * ((b.east - b.west) \div 1000),
     lat |-> b.south + r * ((b.north - b.south) \div 1000)]
\* Math.random() * 200 for the draw r, rounded down
SeedAge(r) == (r * 200) \div 1000
\* the particle arrays init2DArrows can seed in the current view
Seeds == [1..NParticles -> {Spawn(Bounds, r, SeedAge(r)) : r \in RandomDraws}]

ThreeLayerId == "flux-3d-particles"
HighlightLayers == {"highlight-fill", "highlight-outline"}
\* the sources a freshly loaded basemap style brings with it
StyleSources == {"composite"}

Cmd(op, id) == <<op, id>>

-----------------------------------------------------------------------------
(* The engine *)

\* the part of the engine state that addSource/addLayer/remove* act on
Eng == [removed |-> mapRemoved, loading |-> styleLoading,
        sources |-> sources, layers |-> layers, src |-> highlightSrc]

SetEngine(e) ==
    /\ sources' = e.sources
    /\ layers' = e.layers
    /\ highlightSrc' = e.src

\* the engine state right after a style finished loading
StyleLoaded(e) == [e EXCEPT !.loading = FALSE, !.sources = StyleSources,
                            !.layers = {}, !.src = NoFeature]

\* the engine state right after setStyle(url): everything added is discarded
StyleDiscarded(e) == [e EXCEPT !.loading = TRUE, !.sources = {}, !.layers = {},
                               !.src = NoFeature]

(***************************************************************************)
(* addHighlightLayer(feature) of F on engine state e.  The result holds    *)
(* the engine state afterwards, the commands issued and whether it threw.  *)
(***************************************************************************)
addHighlightLayerF(e, feature) ==
    IF e.removed
    THEN \* getSource on a removed map throws
         [eng |-> e, cmds |-> <<>>, threw |-> TRUE]
    ELSE IF e.loading
    THEN \* nothing is registered; addSource throws "Style is not done loading"
         [eng |-> e, cmds |-> <<Cmd("addSource", "highlight")>>, threw |-> TRUE]
    ELSE LET had == "highlight" \in e.sources
             rm  == IF had
                    THEN (IF "highlight-fill" \in e.layers
                          THEN <<Cmd("removeLayer", "highlight-fill")>> ELSE <<>>)
                         \o (IF "highlight-outline" \in e.layers
                             THEN <<Cmd("removeLayer", "highlight-outline")>> ELSE <<>>)
                         \o <<Cmd("removeSource", "highlight")>>
                    ELSE <<>>
             l0  == IF had THEN e.layers \ HighlightLayers ELSE e.layers
         IN  IF l0 \cap HighlightLayers # {}
             THEN \* a layer id that is still registered: addLayer throws
                  [eng |-> [e EXCEPT !.sources = @ \cup {"highlight"},
                                     !.layers = l0, !.src = feature],
                   cmds |-> rm \o <<Cmd("addSource", "highlight"),
                                    Cmd("addLayer", "highlight-fill")>>,
                   threw |-> TRUE]
             ELSE [eng |-> [e EXCEPT !.sources = @ \cup {"highlight"},
                                     !.layers = l0 \cup HighlightLayers,
                                     !.src = feature],
                   cmds |-> rm \o <<Cmd("addSource", "highlight"),
                                    Cmd("addLayer", "highlight-fill"),
                                    Cmd("addLayer", "highlight-outline")>>,
                   threw |-> FALSE]

-----------------------------------------------------------------------------
(* Initial state: the component is mounted, the map is constructed and its *)
(* first style is loading.                                                 *)

Init ==
    /\ mapLoaded = FALSE
    /\ styleLoading = TRUE
    /\ sources = {}
    /\ layers = {}
    /\ highlightSrc = NoFeature
    /\ onceMoveend = FALSE
    /\ onceStyleLoad = <<>>
    /\ mapRemoved = FALSE
    /\ markers = {}
    /\ flyTarget = NoCity
    /\ flightEnd = 0
    /\ transition = NoTransition
    /\ projection = "globe"
    /\ rotating = TRUE
    /\ bearing = 0
    /\ mode = "globe"
    /\ resumeTimer = NoTimer
    /\ animFrame = FALSE
    /\ highlightFeature = NoFeature
    /\ selectedCity = NoCity
    /\ markerRef = NoMarker
    /\ activeLayer = "satellite"
    /\ unmounted = FALSE
    /\ show3D = FALSE
    /\ windSeries = <<>>
    /\ flowFrame = 0
    /\ loops = <<>>
    /\ particleArray = <<>>
    /\ canvas = <<>>
    /\ gpuAlloc = 0
    /\ results = NoResults
    /\ loading = FALSE
    /\ rawResults = NoRaw
    /\ windSpeed = DefaultWind
    /\ resultsF = NoRaw
    /\ particles = <<>>
    /\ nUpdates = 0
    /\ boundaryFetches = {}
    /\ fluxFetches = {}
    /\ nFetch = 0
    /\ nSwaps = 0
    /\ now = 0
    /\ frames = 0
    /\ cmds = <<>>
    /\ lastOp = "mount"
    /\ lastResp = NoResponse

-----------------------------------------------------------------------------
(* Platform *)

\* one second passes; a due timer fires and a due flight arrives before
\* time moves on
advanceTime ==
    /\ now < MaxTime
    /\ resumeTimer = NoTimer \/ now < resumeTimer
    /\ ~onceMoveend \/ now < flightEnd
    /\ now' = now + 1
    /\ cmds' = <<>>
    /\ lastOp' = "advanceTime"
    /\ lastResp' = NoResponse
    /\ UNCHANGED scaleVars
    /\ UNCHANGED windLayerVars
    /\ UNCHANGED <<engineVars, orbitVars, selVars, flowVars, unmounted,
                   boundaryFetches, nFetch, nSwaps, frames>>

-----------------------------------------------------------------------------
(* Variant F: src/frontend/src/components/GlobeMap.jsx *)

\* a tick that turns the camera whether or not the orbit is paused: what
\* animateOrbitF is compared with
animateOrbitUnpausedF ==
    LET b == bearing + (IF mode = "globe" THEN GlobeStep ELSE FocusStep)
    IN  [bearing |-> b,
         cmds |-> <<Cmd("jumpTo", [mode |-> mode, bearing |-> b])>>]

(***************************************************************************)
(* The body of animateOrbit before it reschedules itself: the bearing it   *)
(* leaves in bearingRef and the camera commands it issues.  mapRef.current *)
(* is set on mount and never reset, so the test on it is always true.      *)
(***************************************************************************)
animateOrbitF ==
    IF rotating
    THEN LET b == bearing + (IF mode = "globe" THEN GlobeStep ELSE FocusStep)
         IN  [bearing |-> b,
              cmds |-> <<Cmd("jumpTo", [mode |-> mode, bearing |-> b])>>]
    ELSE [bearing |-> bearing, cmds |-> <<>>]

\* pauseOrbit, the handler of "dragstart" and "zoomstart"
pauseOrbitF ==
    /\ mapLoaded
    /\ ~mapRemoved
    /\ rotating' = FALSE
    /\ resumeTimer' = now + ResumeDelay
    /\ cmds' = <<>>
    /\ lastOp' = "pauseOrbit"
    /\ lastResp' = NoResponse
    /\ UNCHANGED scaleVars
    /\ UNCHANGED windLayerVars
    /\ UNCHANGED <<engineVars, bearing, mode, animFrame, selVars, flowVars,
                   unmounted, boundaryFetches, nFetch, nSwaps, now, frames>>

\* the callback pauseOrbit handed to setTimeout
resumeTimerFiresF ==
    /\ resumeTimer # NoTimer
    /\ now >= resumeTimer
    /\ rotating' = TRUE
    /\ resumeTimer' = NoTimer
    /\ cmds' = <<>>
    /\ lastOp' = "resumeTimer"
    /\ lastResp' = NoResponse
    /\ UNCHANGED scaleVars
    /\ UNCHANGED windLayerVars
    /\ UNCHANGED <<engineVars, bearing, mode, animFrame, selVars, flowVars,
                   unmounted, boundaryFetches, nFetch, nSwaps, now, frames>>

\* a display frame: the pending requestAnimationFrame(animateOrbit) runs
displayFrameF(budget) ==
    /\ animFrame
    /\ frames < budget
    /\ frames' = frames + 1
    /\ bearing' = animateOrbitF.bearing
    /\ cmds' = animateOrbitF.cmds
    /\ animFrame' = TRUE
    /\ lastOp' = "animateOrbit"
    /\ lastResp' = NoResponse
    /\ UNCHANGED scaleVars
    /\ UNCHANGED windLayerVars
    /\ UNCHANGED <<engineVars, rotating, mode, resumeTimer, selVars, flowVars,
                   unmounted, boundaryFetches, nFetch, nSwaps, now>>

\* a style.load that replays nothing: what styleLoadF is compared with
styleLoadNoRestoreF ==
    /\ styleLoading
    /\ ~mapRemoved
    /\ SetEngine(StyleLoaded(Eng))
    /\ cmds' = <<>>
    /\ styleLoading' = FALSE
    /\ lastOp' = "style.load"
    /\ lastResp' = NoResponse
    /\ UNCHANGED scaleVars
    /\ UNCHANGED windLayerVars
    /\ UNCHANGED <<mapLoaded, onceMoveend, onceStyleLoad, mapRemoved, markers,
                   flyTarget, flightEnd, transition, projection, orbitVars, selVars, flowVars,
                   unmounted, boundaryFetches, nFetch, nSwaps, now, frames>>

\* the engine finishes loading a style and emits "style.load"; once the load
\* handler has run, its style.load handler re-adds the stored highlight
styleLoadF ==
    /\ styleLoading
    /\ ~mapRemoved
    /\ LET e0 == StyleLoaded(Eng)
           r  == IF mapLoaded /\ highlightFeature # NoFeature
                 THEN addHighlightLayerF(e0, highlightFeature)
                 ELSE [eng |-> e0, cmds |-> <<>>, threw |-> FALSE]
       IN  /\ SetEngine(r.eng)
           /\ cmds' = r.cmds
    /\ styleLoading' = FALSE
    /\ lastOp' = "style.load"
    /\ lastResp' = NoResponse
    /\ UNCHANGED scaleVars
    /\ UNCHANGED windLayerVars
    /\ UNCHANGED <<mapLoaded, onceMoveend, onceStyleLoad, mapRemoved, markers,
                   flyTarget, flightEnd, transition, projection, orbitVars, selVars, flowVars, unmounted,
                   boundaryFetches, nFetch, nSwaps, now, frames>>

\* the map's "load" handler: first animateOrbit call, handlers and geocoder
\* are registered
mapLoadF ==
    /\ ~mapLoaded
    /\ ~styleLoading
    /\ ~mapRemoved
    /\ mapLoaded' = TRUE
    /\ bearing' = animateOrbitF.bearing
    /\ animFrame' = TRUE
    /\ cmds' = <<Cmd("setFog", "map")>> \o animateOrbitF.cmds
    /\ lastOp' = "load"
    /\ lastResp' = NoResponse
    /\ UNCHANGED scaleVars
    /\ UNCHANGED windLayerVars
    /\ UNCHANGED <<styleLoading, sources, layers, highlightSrc, onceMoveend,
                   onceStyleLoad, mapRemoved, markers, flyTarget, flightEnd, transition, projection,
                   rotating, mode, resumeTimer, selVars, flowVars, unmounted,
                   boundaryFetches, nFetch, nSwaps, now, frames>>

\* geocoder "result" handler up to its await: selection, marker, /boundary request
geocoderResultF(c) ==
    /\ mapLoaded
    /\ ~unmounted
    /\ nFetch < MaxRequests
    /\ selectedCity' = c
    /\ mode' = "focus"
    /\ rotating' = FALSE
    /\ LET m == [id |-> nFetch + 1, city |-> c]
       IN  /\ markers' = (markers \ {markerRef}) \cup {m}
           /\ markerRef' = m
    /\ boundaryFetches' = boundaryFetches \cup {[id |-> nFetch + 1, city |-> c]}
    /\ nFetch' = nFetch + 1
    /\ cmds' = (IF markerRef # NoMarker THEN <<Cmd("marker.remove", markerRef.city)>>
                ELSE <<>>) \o <<Cmd("marker.addTo", c)>>
    /\ lastOp' = "result"
    /\ lastResp' = NoResponse
    /\ UNCHANGED scaleVars
    /\ UNCHANGED windLayerVars
    /\ UNCHANGED <<mapLoaded, styleLoading, sources, layers, highlightSrc,
                   onceMoveend, onceStyleLoad, mapRemoved, flyTarget, flightEnd, transition, projection,
                   bearing, resumeTimer, animFrame, highlightFeature, activeLayer,
                   flowVars, unmounted, nSwaps, now, frames>>

\* a continuation that drops the highlight when the request failed: what
\* boundaryReturnF is compared with
boundaryReturnClearF(f, resp) ==
    /\ f \in boundaryFetches
    /\ boundaryFetches' = boundaryFetches \ {f}
    /\ LET ok == resp = "geojson"
           e1 == [Eng EXCEPT !.layers = @ \ HighlightLayers,
                             !.sources = @ \ {"highlight"},
                             !.src = NoFeature]
           r  == IF ok THEN addHighlightLayerF(Eng, Boundary(f.city))
                 ELSE [eng |-> e1, cmds |-> <<>>, threw |-> FALSE]
       IN  /\ highlightFeature' = IF ok THEN Boundary(f.city) ELSE NoFeature
           /\ SetEngine(r.eng)
           /\ cmds' = r.cmds \o <<Cmd("flyTo", f.city)>>
    /\ flyTarget' = IF mapRemoved THEN flyTarget ELSE f.city
    /\ flightEnd' = IF mapRemoved THEN flightEnd ELSE now + FlyDuration
    /\ onceMoveend' = IF mapRemoved THEN onceMoveend ELSE TRUE
    /\ lastOp' = "boundaryReturn"
    /\ lastResp' = resp
    /\ UNCHANGED scaleVars
    /\ UNCHANGED windLayerVars
    /\ UNCHANGED <<transition, mapLoaded, styleLoading, onceStyleLoad, mapRemoved, markers,
                   projection, orbitVars, selectedCity, markerRef, activeLayer,
                   flowVars, unmounted, nFetch, nSwaps, now, frames>>

\* the rest of the "result" handler, after the /boundary request was answered:
\* store and draw the boundary, fly to the city, register the arrival handler
boundaryReturnF(f, resp) ==
    /\ f \in boundaryFetches
    /\ boundaryFetches' = boundaryFetches \ {f}
    /\ LET ok == resp = "geojson"
           r  == IF ok THEN addHighlightLayerF(Eng, Boundary(f.city))
                 ELSE [eng |-> Eng, cmds |-> <<>>, threw |-> FALSE]
       IN  /\ highlightFeature' = IF ok THEN Boundary(f.city) ELSE highlightFeature
           /\ SetEngine(r.eng)
           /\ cmds' = r.cmds \o <<Cmd("flyTo", f.city)>>
    /\ flyTarget' = IF mapRemoved THEN flyTarget ELSE f.city
    /\ flightEnd' = IF mapRemoved THEN flightEnd ELSE now + FlyDuration
    /\ onceMoveend' = IF mapRemoved THEN onceMoveend ELSE TRUE
    /\ lastOp' = "boundaryReturn"
    /\ lastResp' = resp
    /\ UNCHANGED scaleVars
    /\ UNCHANGED windLayerVars
    /\ UNCHANGED <<transition, mapLoaded, styleLoading, onceStyleLoad, mapRemoved, markers,
                   projection, orbitVars, selectedCity, markerRef, activeLayer,
                   flowVars, unmounted, nFetch, nSwaps, now, frames>>

\* the user stops the camera flight in progress: it ends now
interruptFlightF ==
    /\ onceMoveend
    /\ ~mapRemoved
    /\ now < flightEnd
    /\ flightEnd' = now
    /\ cmds' = <<>>
    /\ lastOp' = "interruptFlight"
    /\ lastResp' = NoResponse
    /\ UNCHANGED scaleVars
    /\ UNCHANGED windLayerVars
    /\ UNCHANGED <<mapLoaded, styleLoading, sources, layers, highlightSrc,
                   onceMoveend, onceStyleLoad, mapRemoved, markers, flyTarget,
                   transition,
                   projection, orbitVars, selVars, flowVars, unmounted,
                   boundaryFetches, nFetch, nSwaps, now, frames>>

\* the flight ends: the once("moveend") handler registered after flyTo runs
moveendF ==
    /\ onceMoveend
    /\ ~mapRemoved
    /\ now >= flightEnd
    /\ onceMoveend' = FALSE
    /\ bearing' = ArrivalBearing
    /\ rotating' = TRUE
    /\ cmds' = <<>>
    /\ lastOp' = "moveend"
    /\ lastResp' = NoResponse
    /\ UNCHANGED scaleVars
    /\ UNCHANGED windLayerVars
    /\ UNCHANGED <<mapLoaded, styleLoading, sources, layers, highlightSrc,
                   onceStyleLoad, mapRemoved, markers, flyTarget, flightEnd, transition, projection,
                   mode, resumeTimer, animFrame, selVars, flowVars, unmounted,
                   boundaryFetches, nFetch, nSwaps, now, frames>>

\* handleLayerChange(layer): the Satellite / Streets buttons
handleLayerChangeF(layer) ==
    /\ ~unmounted
    /\ nSwaps < MaxSwaps
    /\ nSwaps' = nSwaps + 1
    /\ SetEngine(StyleDiscarded(Eng))
    /\ styleLoading' = TRUE
    /\ activeLayer' = layer
    /\ cmds' = <<Cmd("setStyle", layer)>>
    /\ lastOp' = "handleLayerChange"
    /\ lastResp' = NoResponse
    /\ UNCHANGED scaleVars
    /\ UNCHANGED windLayerVars
    /\ UNCHANGED <<mapLoaded, onceMoveend, onceStyleLoad, mapRemoved, markers,
                   flyTarget, flightEnd, transition, projection, orbitVars, highlightFeature, selectedCity,
                   markerRef, flowVars, unmounted, boundaryFetches, nFetch, now, frames>>

\* runSimulation of F up to its await: alert without a city, else the /flux
\* request; budget bounds the requests issued so far
runSimulationF(budget) ==
    /\ ~unmounted
    /\ IF selectedCity = NoCity
       THEN /\ cmds' = <<Cmd("alert", "Please search and select a city first!")>>
            /\ UNCHANGED <<loading, fluxFetches, nFetch>>
       ELSE /\ nFetch < budget
            /\ loading' = TRUE
            /\ fluxFetches' = fluxFetches \cup {[id |-> nFetch + 1, city |-> selectedCity]}
            /\ nFetch' = nFetch + 1
            /\ cmds' = <<>>
    /\ lastOp' = "runSimulation"
    /\ lastResp' = NoResponse
    /\ UNCHANGED scaleVars
    /\ UNCHANGED windLayerVars
    /\ UNCHANGED <<engineVars, orbitVars, selVars, show3D, windSeries, flowFrame,
                   loops, particleArray, canvas, gpuAlloc, results, unmounted,
                   boundaryFetches, nSwaps, now, frames>>

\* a wind-scaling effect that scales what the panel displays instead of the
\* raw result: what ScaleResults is compared with
ScaleDisplayed(raw, w) ==
    IF raw.kind # "data" THEN raw
    ELSE LET base       == IF resultsF.kind = "data" THEN resultsF ELSE raw
             scaledFlux == (base.net_flux_L * w) \div ScalingDen
         IN  [raw EXCEPT
                !.net_flux_L = scaledFlux,
                !.flux_to_demand_ratio = [num |-> scaledFlux, den |-> raw.demand_L],
                !.wind_speed_ms = w,
                !.daily_flux_series =
                    [i \in DOMAIN base.daily_flux_series |->
                        [date   |-> base.daily_flux_series[i].date,
                         flux_L |-> (base.daily_flux_series[i].flux_L * w)
                                       \div ScalingDen]]]

(***************************************************************************)
(* The wind-scaling effect of F, which runs after every change of          *)
(* rawResults or windSpeed: what setResults is given for the raw result    *)
(* raw and the slider value w.  A null or error result is handed on as it  *)
(* is; otherwise the net flux and every series entry are multiplied by     *)
(* scaling = w / 2.0 and the ratio is the scaled flux over the demand.     *)
(***************************************************************************)
ScaleResults(raw, w) ==
    IF raw.kind # "data" THEN raw
    ELSE LET scaledFlux == (raw.net_flux_L * w) \div ScalingDen
         IN  [raw EXCEPT
                !.net_flux_L = scaledFlux,
                !.flux_to_demand_ratio = [num |-> scaledFlux, den |-> raw.demand_L],
                !.wind_speed_ms = w,
                !.daily_flux_series =
                    [i \in DOMAIN raw.daily_flux_series |->
                        [date   |-> raw.daily_flux_series[i].date,
                         flux_L |-> (raw.daily_flux_series[i].flux_L * w)
                                       \div ScalingDen]]]

\* the rest of F's runSimulation, after the /flux request q was answered,
\* and the wind-scaling effect that the new rawResults triggers
fluxReturnF(q, resp) ==
    /\ q \in fluxFetches
    /\ fluxFetches' = fluxFetches \ {q}
    /\ loading' = FALSE
    /\ IF unmounted
       THEN UNCHANGED <<rawResults, resultsF>>
       ELSE /\ rawResults' = RawOf(resp)
            /\ resultsF' = ScaleResults(RawOf(resp), windSpeed)
    /\ cmds' = <<>>
    /\ lastOp' = "fluxReturn"
    /\ lastResp' = resp
    /\ UNCHANGED windLayerVars
    /\ UNCHANGED <<engineVars, orbitVars, selVars, show3D, windSeries, flowFrame,
                   loops, particleArray, canvas, gpuAlloc, results, windSpeed,
                   unmounted, boundaryFetches, nFetch, nSwaps, now, frames>>

\* the wind-speed slider is moved to w, and the wind-scaling effect that the
\* new windSpeed triggers
setWindSpeedF(w) ==
    /\ ~unmounted
    /\ w \in SliderMin..SliderMax
    /\ windSpeed' = w
    /\ resultsF' = ScaleResults(rawResults, w)
    /\ cmds' = <<>>
    /\ lastOp' = "setWindSpeed"
    /\ lastResp' = NoResponse
    /\ UNCHANGED windLayerVars
    /\ UNCHANGED <<engineVars, orbitVars, selVars, flowVars, rawResults, unmounted,
                   boundaryFetches, nFetch, nSwaps, now, frames>>

\* the cleanup of the mount effect
unmountF ==
    /\ ~unmounted
    /\ unmounted' = TRUE
    /\ animFrame' = FALSE
    /\ resumeTimer' = NoTimer
    /\ mapRemoved' = TRUE
    /\ styleLoading' = FALSE
    /\ sources' = {}
    /\ layers' = {}
    /\ highlightSrc' = NoFeature
    /\ markers' = {}
    /\ onceMoveend' = FALSE
    /\ cmds' = <<Cmd("remove", "map")>>
    /\ lastOp' = "unmount"
    /\ lastResp' = NoResponse
    /\ UNCHANGED scaleVars
    /\ UNCHANGED windLayerVars
    /\ UNCHANGED <<mapLoaded, onceStyleLoad, flyTarget, flightEnd, transition, projection, rotating,
                   bearing, mode, selVars, flowVars, boundaryFetches, nFetch,
                   nSwaps, now, frames>>

-----------------------------------------------------------------------------
(* Variant B: src/unnamed/part_000, lines 325-768 *)

\* the closure ensureTerrain hands to whenStyleReady
ensureTerrainFn(e) ==
    [eng  |-> [e EXCEPT !.sources = @ \cup {"mapbox-dem"}],
     cmds |-> (IF "mapbox-dem" \notin e.sources
               THEN <<Cmd("addSource", "mapbox-dem")>> ELSE <<>>)
              \o <<Cmd("setTerrain", "mapbox-dem")>>]

\* the closure add3DBuildings hands to whenStyleReady
add3DBuildingsFn(e) ==
    IF "3d-buildings" \in e.layers \/ "composite" \notin e.sources
    THEN [eng |-> e, cmds |-> <<>>]
    ELSE [eng  |-> [e EXCEPT !.layers = @ \cup {"3d-buildings"}],
          cmds |-> <<Cmd("addLayer", "3d-buildings")>>]

\* an addHighlightLayer closure without the guarded removals: the second
\* addSource("highlight") throws and the closure ends there; what
\* addHighlightLayerFn is compared with
addHighlightLayerNoRemoveFn(e, geojson) ==
    IF "highlight" \in e.sources
    THEN [eng |-> e, cmds |-> <<Cmd("addSource", "highlight")>>]
    ELSE [eng  |-> [e EXCEPT !.sources = @ \cup {"highlight"},
                             !.layers = @ \cup HighlightLayers,
                             !.src = geojson],
          cmds |-> <<Cmd("addSource", "highlight"),
                     Cmd("addLayer", "highlight-fill"),
                     Cmd("addLayer", "highlight-outline")>>]

\* the closure addHighlightLayer(geojson) hands to whenStyleReady
addHighlightLayerFn(e, geojson) ==
    [eng  |-> [e EXCEPT !.sources = @ \cup {"highlight"},
                        !.layers = @ \cup HighlightLayers,
                        !.src = geojson],
     cmds |-> (IF "highlight-fill" \in e.layers
               THEN <<Cmd("removeLayer", "highlight-fill")>> ELSE <<>>)
              \o (IF "highlight-outline" \in e.layers
                  THEN <<Cmd("removeLayer", "highlight-outline")>> ELSE <<>>)
              \o (IF "highlight" \in e.sources
                  THEN <<Cmd("removeSource", "highlight")>> ELSE <<>>)
              \o <<Cmd("addSource", "highlight"),
                   Cmd("addLayer", "highlight-fill"),
                   Cmd("addLayer", "highlight-outline")>>]

\* a closure handed to whenStyleReady, run on engine state e
RunFn(e, fn) ==
    CASE fn[1] = "ensureTerrain"     -> ensureTerrainFn(e)
      [] fn[1] = "add3DBuildings"    -> add3DBuildingsFn(e)
      [] fn[1] = "addHighlightLayer" -> addHighlightLayerFn(e, fn[2])

\* the once("style.load") handlers q, run in order on engine state e
RECURSIVE RunAll(_, _)
RunAll(e, q) ==
    IF q = <<>> THEN [eng |-> e, cmds |-> <<>>]
    ELSE LET r    == RunFn(e, Head(q))
             rest == RunAll(r.eng, Tail(q))
         IN  [eng |-> rest.eng, cmds |-> r.cmds \o rest.cmds]

(***************************************************************************)
(* whenStyleReady(map, fn): run fn now if map.isStyleLoaded(), else        *)
(* register it with once("style.load").  st is [eng, q, cmds]: the engine, *)
(* the once handlers registered so far and the commands issued so far;     *)
(* ready is the engine's answer to isStyleLoaded().                        *)
(***************************************************************************)
whenStyleReady(st, ready, fn) ==
    IF ready
    THEN LET r == RunFn(st.eng, fn)
         IN  [eng |-> r.eng, q |-> st.q, cmds |-> st.cmds \o r.cmds]
    ELSE [eng |-> st.eng, q |-> Append(st.q, fn),
          cmds |-> st.cmds \o <<Cmd("once", "style.load")>>]

\* the answers isStyleLoaded() can give in the current engine state
StyleLoadedAnswers == IF styleLoading \/ mapRemoved THEN {FALSE} ELSE BOOLEAN

\* add3DLayer on engine state e; alloc is the number of point-cloud
\* resource sets (BufferGeometry, WebGLRenderer) it creates
add3DLayer(e) ==
    IF ThreeLayerId \in e.layers
    THEN [eng |-> e, cmds |-> <<>>, alloc |-> 0, threw |-> FALSE]
    ELSE IF e.loading
    THEN \* the resources are created, then addLayer throws
         [eng |-> e, cmds |-> <<Cmd("addLayer", ThreeLayerId)>>,
          alloc |-> 1, threw |-> TRUE]
    ELSE [eng |-> [e EXCEPT !.layers = @ \cup {ThreeLayerId}],
          cmds |-> <<Cmd("addLayer", ThreeLayerId)>>,
          alloc |-> 1, threw |-> FALSE]

\* a remove3DLayer without the getLayer test: what remove3DLayer is compared with
remove3DLayerUnguarded(e) ==
    [eng |-> [e EXCEPT !.layers = @ \ {ThreeLayerId}],
     cmds |-> <<Cmd("removeLayer", ThreeLayerId)>>]

\* remove3DLayer on engine state e: it releases nothing but the layer
remove3DLayer(e) ==
    IF ThreeLayerId \in e.layers
    THEN [eng |-> [e EXCEPT !.layers = @ \ {ThreeLayerId}],
          cmds |-> <<Cmd("removeLayer", ThreeLayerId)>>]
    ELSE [eng |-> e, cmds |-> <<>>]

\* the body of B's animateOrbit before it reschedules itself
animateOrbitB ==
    IF rotating /\ mode = "globe"
    THEN [bearing |-> bearing + GlobeStep, cmds |-> <<Cmd("jumpTo", "globe")>>]
    ELSE [bearing |-> bearing, cmds |-> <<>>]

\* a draw() whose arrows point where the wind comes from: what draw is
\* compared with
drawUpwind(captured, st, ws, b, rnd) ==
    IF captured THEN [st EXCEPT !.canvas = <<>>]
    ELSE IF Len(ws) = 0 THEN [st EXCEPT !.canvas = <<>>]
    ELSE LET frame     == ws[(st.flowFrame % Len(ws)) + 1]
             heading   == frame.direction_deg % 360
             speed     == frame.speed_ms
             baseLen   == Min(ArrowCap, speed)
             driftStep == DriftBase + Min(DriftCap, speed * DriftPerSpeed)
             moved(p)  == [age |-> p.age + 1,
                           lon |-> p.lon + driftStep * Sin(heading),
                           lat |-> p.lat + driftStep * Cos(heading)]
         IN  [particles |-> [i \in DOMAIN st.particles |->
                                IF moved(st.particles[i]).age > AgeCap
                                THEN Spawn(b, rnd, 0)
                                ELSE moved(st.particles[i])],
              flowFrame |-> (st.flowFrame + 1) % Len(ws),
              canvas    |-> [i \in DOMAIN st.particles |->
                                [heading |-> heading, len |-> baseLen]]]

\* a draw() that ages and moves the particles but never respawns one: what
\* draw is compared with
drawNoRespawn(captured, st, ws, b, rnd) ==
    IF captured THEN [st EXCEPT !.canvas = <<>>]
    ELSE IF Len(ws) = 0 THEN [st EXCEPT !.canvas = <<>>]
    ELSE LET frame     == ws[(st.flowFrame % Len(ws)) + 1]
             heading   == (frame.direction_deg + 180) % 360
             speed     == frame.speed_ms
             baseLen   == Min(ArrowCap, speed)
             driftStep == DriftBase + Min(DriftCap, speed * DriftPerSpeed)
         IN  [particles |-> [i \in DOMAIN st.particles |->
                                [age |-> st.particles[i].age + 1,
                                 lon |-> st.particles[i].lon + driftStep * Sin(heading),
                                 lat |-> st.particles[i].lat + driftStep * Cos(heading)]],
              flowFrame |-> (st.flowFrame + 1) % Len(ws),
              canvas    |-> [i \in DOMAIN st.particles |->
                                [heading |-> heading, len |-> baseLen]]]

\* a draw() that reads the series at the cursor without wrapping it: the
\* read past the end gives undefined and the repaint throws after clearing
\* the canvas; what draw is compared with
drawUnwrapped(captured, st, ws, b, rnd) ==
    IF captured THEN [st EXCEPT !.canvas = <<>>]
    ELSE IF Len(ws) = 0 THEN [st EXCEPT !.canvas = <<>>]
    ELSE IF st.flowFrame >= Len(ws) THEN [st EXCEPT !.canvas = <<>>]
    ELSE LET frame     == ws[st.flowFrame + 1]
             heading   == (frame.direction_deg + 180) % 360
             speed     == frame.speed_ms
             baseLen   == Min(ArrowCap, speed)
             driftStep == DriftBase + Min(DriftCap, speed * DriftPerSpeed)
             moved(p)  == [age |-> p.age + 1,
                           lon |-> p.lon + driftStep * Sin(heading),
                           lat |-> p.lat + driftStep * Cos(heading)]
         IN  [particles |-> [i \in DOMAIN st.particles |->
                                IF moved(st.particles[i]).age > AgeCap
                                THEN Spawn(b, rnd, 0)
                                ELSE moved(st.particles[i])],
              flowFrame |-> (st.flowFrame + 1) % Len(ws),
              canvas    |-> [i \in DOMAIN st.particles |->
                                [heading |-> heading, len |-> baseLen]]]

(***************************************************************************)
(* One run of draw() of a loop whose closure captured show3D = captured,   *)
(* on st = [particles, flowFrame, canvas], reading the wind series ws, in  *)
(* the view b, with rnd the value the respawns draw from Math.random().    *)
(* The canvas is cleared first; every particle is stroked as an arrow,     *)
(* moved along the heading and respawned when it is too old.               *)
(***************************************************************************)
draw(captured, st, ws, b, rnd) ==
    IF captured THEN [st EXCEPT !.canvas = <<>>]
    ELSE IF Len(ws) = 0 THEN [st EXCEPT !.canvas = <<>>]
    ELSE LET frame     == ws[(st.flowFrame % Len(ws)) + 1]
             heading   == (frame.direction_deg + 180) % 360
             speed     == frame.speed_ms
             baseLen   == Min(ArrowCap, speed)
             driftStep == DriftBase + Min(DriftCap, speed * DriftPerSpeed)
             moved(p)  == [age |-> p.age + 1,
                           lon |-> p.lon + driftStep * Sin(heading),
                           lat |-> p.lat + driftStep * Cos(heading)]
         IN  [particles |-> [i \in DOMAIN st.particles |->
                                IF moved(st.particles[i]).age > AgeCap
                                THEN Spawn(b, rnd, 0)
                                ELSE moved(st.particles[i])],
              flowFrame |-> (st.flowFrame + 1) % Len(ws),
              canvas    |-> [i \in DOMAIN st.particles |->
                                [heading |-> heading, len |-> baseLen]]]

\* draw() of every live loop, oldest first
RECURSIVE drawAll(_, _, _, _, _)
drawAll(ls, st, ws, b, rnd) ==
    IF ls = <<>> THEN st
    ELSE drawAll(Tail(ls), draw(Head(ls), st, ws, b, rnd), ws, b, rnd)

\* init2DArrows of a render whose show3D is captured: seed the particles,
\* run draw() once and leave the loop scheduled; a particle just seeded is
\* too young to respawn, so the first draw() takes nothing from Math.random()
init2DArrows(captured, seed, ff, ws) ==
    LET st == draw(captured, [particles |-> seed, flowFrame |-> ff,
                              canvas |-> canvas], ws, Bounds, 0)
    IN  [particles |-> st.particles, flowFrame |-> st.flowFrame,
         canvas |-> st.canvas, loops |-> Append(loops, captured)]

\* a display frame: animateOrbit, then draw() of every loop
displayFrameB(budget, rnd) ==
    /\ animFrame \/ loops # <<>>
    /\ frames < budget
    /\ frames' = frames + 1
    /\ IF animFrame
       THEN bearing' = animateOrbitB.bearing /\ cmds' = animateOrbitB.cmds
       ELSE bearing' = bearing /\ cmds' = <<>>
    /\ LET st == drawAll(loops, [particles |-> particleArray,
                                 flowFrame |-> flowFrame, canvas |-> canvas],
                         windSeries, Bounds, rnd)
       IN  /\ particleArray' = st.particles
           /\ flowFrame' = st.flowFrame
           /\ canvas' = st.canvas
    /\ lastOp' = "frame"
    /\ lastResp' = NoResponse
    /\ UNCHANGED scaleVars
    /\ UNCHANGED windLayerVars
    /\ UNCHANGED <<engineVars, rotating, mode, resumeTimer, animFrame, selVars,
                   show3D, windSeries, loops, gpuAlloc, results, loading,
                   fluxFetches, unmounted, boundaryFetches, nFetch, nSwaps, now>>

\* the map's "load" handler; k of its whenStyleReady calls find the style loaded
mapLoadB(k) ==
    /\ ~mapLoaded
    /\ ~styleLoading
    /\ mapLoaded' = TRUE
    /\ LET s0 == [eng |-> Eng, q |-> onceStyleLoad, cmds |-> <<Cmd("setFog", "map")>>]
           s1 == whenStyleReady(s0, k >= 1, <<"ensureTerrain">>)
           s2 == whenStyleReady(s1, k >= 2, <<"add3DBuildings">>)
       IN  /\ SetEngine(s2.eng)
           /\ onceStyleLoad' = s2.q
           /\ cmds' = s2.cmds \o animateOrbitB.cmds
    /\ bearing' = animateOrbitB.bearing
    /\ animFrame' = TRUE
    /\ lastOp' = "load"
    /\ lastResp' = NoResponse
    /\ UNCHANGED scaleVars
    /\ UNCHANGED windLayerVars
    /\ UNCHANGED <<styleLoading, onceMoveend, mapRemoved, markers, flyTarget,
                   flightEnd, transition, projection, rotating, mode, resumeTimer, selVars,
                   flowVars, unmounted, boundaryFetches, nFetch, nSwaps, now, frames>>

\* the engine emits "style.load": the on() handler (ensureTerrain,
\* add3DBuildings, restoreHighlight), then every once() handler
styleLoadB(k) ==
    /\ styleLoading
    /\ styleLoading' = FALSE
    /\ LET e0 == StyleLoaded(Eng)
           s0 == [eng |-> e0, q |-> onceStyleLoad, cmds |-> <<>>]
           s1 == whenStyleReady(s0, k >= 1, <<"ensureTerrain">>)
           s2 == whenStyleReady(s1, k >= 2, <<"add3DBuildings">>)
           s3 == IF highlightFeature # NoFeature
                 THEN whenStyleReady(s2, k >= 3, <<"addHighlightLayer", highlightFeature>>)
                 ELSE s2
           h  == IF mapLoaded THEN s3 ELSE s0
           r  == RunAll(h.eng, h.q)
       IN  /\ SetEngine(r.eng)
           /\ onceStyleLoad' = <<>>
           /\ cmds' = h.cmds \o r.cmds
    /\ lastOp' = "style.load"
    /\ lastResp' = NoResponse
    /\ UNCHANGED scaleVars
    /\ UNCHANGED windLayerVars
    /\ UNCHANGED <<mapLoaded, onceMoveend, mapRemoved, markers, flyTarget,
                   flightEnd, transition, projection, orbitVars, selVars, flowVars, unmounted,
                   boundaryFetches, nFetch, nSwaps, now, frames>>

\* a basemap swap that asks /boundary again: what setStyleB is compared with
setStyleRefetchB(base) ==
    /\ ~unmounted
    /\ nSwaps < MaxSwaps
    /\ nSwaps' = nSwaps + 1
    /\ SetEngine(StyleDiscarded(Eng))
    /\ styleLoading' = TRUE
    /\ activeLayer' = base
    /\ boundaryFetches' = boundaryFetches \cup {[id |-> 0, city |-> selectedCity]}
    /\ cmds' = <<Cmd("setStyle", base)>>
    /\ lastOp' = "setStyle"
    /\ lastResp' = NoResponse
    /\ UNCHANGED scaleVars
    /\ UNCHANGED windLayerVars
    /\ UNCHANGED <<mapLoaded, onceMoveend, onceStyleLoad, mapRemoved, markers,
                   flyTarget, flightEnd, transition, projection, orbitVars, highlightFeature,
                   selectedCity, markerRef, flowVars, unmounted, nFetch, now, frames>>

\* the Satellite / Streets buttons
setStyleB(base) ==
    /\ ~unmounted
    /\ nSwaps < MaxSwaps
    /\ nSwaps' = nSwaps + 1
    /\ SetEngine(StyleDiscarded(Eng))
    /\ styleLoading' = TRUE
    /\ activeLayer' = base
    /\ cmds' = <<Cmd("setStyle", base)>>
    /\ lastOp' = "setStyle"
    /\ lastResp' = NoResponse
    /\ UNCHANGED scaleVars
    /\ UNCHANGED windLayerVars
    /\ UNCHANGED <<mapLoaded, onceMoveend, onceStyleLoad, mapRemoved, markers,
                   flyTarget, flightEnd, transition, projection, orbitVars, highlightFeature,
                   selectedCity, markerRef, flowVars, unmounted, boundaryFetches,
                   nFetch, now, frames>>

\* a "result" handler that adds the new marker without removing the one
\* before: what geocoderResultB is compared with
geocoderResultKeepMarkerB(c) ==
    /\ mapLoaded
    /\ ~unmounted
    /\ nFetch < MaxRequests
    /\ selectedCity' = c
    /\ rotating' = FALSE
    /\ LET m == [id |-> nFetch + 1, city |-> c]
       IN  /\ markers' = markers \cup {m}
           /\ markerRef' = m
    /\ boundaryFetches' = boundaryFetches \cup {[id |-> nFetch + 1, city |-> c]}
    /\ nFetch' = nFetch + 1
    /\ cmds' = <<Cmd("marker.addTo", c)>>
    /\ lastOp' = "result"
    /\ lastResp' = NoResponse
    /\ UNCHANGED scaleVars
    /\ UNCHANGED windLayerVars
    /\ UNCHANGED <<mapLoaded, styleLoading, sources, layers, highlightSrc,
                   onceMoveend, onceStyleLoad, mapRemoved, flyTarget, flightEnd, transition,
                   projection, bearing, mode, resumeTimer, animFrame,
                   highlightFeature, activeLayer, flowVars, unmounted, nSwaps,
                   now, frames>>

\* geocoder "result" handler up to its await
geocoderResultB(c) ==
    /\ mapLoaded
    /\ ~unmounted
    /\ nFetch < MaxRequests
    /\ selectedCity' = c
    /\ rotating' = FALSE
    /\ LET m == [id |-> nFetch + 1, city |-> c]
       IN  /\ markers' = (markers \ {markerRef}) \cup {m}
           /\ markerRef' = m
    /\ boundaryFetches' = boundaryFetches \cup {[id |-> nFetch + 1, city |-> c]}
    /\ nFetch' = nFetch + 1
    /\ cmds' = (IF markerRef # NoMarker THEN <<Cmd("marker.remove", markerRef.city)>>
                ELSE <<>>) \o <<Cmd("marker.addTo", c)>>
    /\ lastOp' = "result"
    /\ lastResp' = NoResponse
    /\ UNCHANGED scaleVars
    /\ UNCHANGED windLayerVars
    /\ UNCHANGED <<mapLoaded, styleLoading, sources, layers, highlightSrc,
                   onceMoveend, onceStyleLoad, mapRemoved, flyTarget, flightEnd, transition,
                   projection, bearing, mode, resumeTimer, animFrame,
                   highlightFeature, activeLayer, flowVars, unmounted, nSwaps,
                   now, frames>>

\* the rest of the "result" handler: fetchAndDrawBoundary's continuation, flyTo
boundaryReturnB(f, resp, ready) ==
    /\ f \in boundaryFetches
    /\ boundaryFetches' = boundaryFetches \ {f}
    /\ LET ok == resp = "geojson"
           s0 == [eng |-> Eng, q |-> onceStyleLoad, cmds |-> <<>>]
           s1 == IF ok
                 THEN whenStyleReady(s0, ready, <<"addHighlightLayer", Boundary(f.city)>>)
                 ELSE s0
       IN  /\ highlightFeature' = IF ok THEN Boundary(f.city) ELSE highlightFeature
           /\ SetEngine(s1.eng)
           /\ onceStyleLoad' = s1.q
           /\ cmds' = s1.cmds \o <<Cmd("flyTo", f.city)>>
    /\ flyTarget' = f.city
    /\ transition' = NoTransition
    /\ lastOp' = "boundaryReturn"
    /\ lastResp' = resp
    /\ UNCHANGED scaleVars
    /\ UNCHANGED windLayerVars
    /\ UNCHANGED <<mapLoaded, styleLoading, onceMoveend, mapRemoved, markers,
                   flightEnd, projection, orbitVars, selectedCity, markerRef,
                   activeLayer, flowVars, unmounted, nFetch, nSwaps, now, frames>>

\* resetGlobe, the Reset button (rendered while a city is selected)
resetGlobeB ==
    /\ selectedCity # NoCity
    /\ ~unmounted
    /\ flyTarget' = "globe"
    /\ markers' = markers \ {markerRef}
    /\ LET e1 == [Eng EXCEPT !.layers = @ \ HighlightLayers,
                             !.sources = @ \ {"highlight"},
                             !.src = NoFeature]
           r  == remove3DLayer(e1)
       IN  /\ SetEngine(r.eng)
           /\ cmds' = <<Cmd("flyTo", "globe")>>
                      \o (IF markerRef # NoMarker
                          THEN <<Cmd("marker.remove", markerRef.city)>> ELSE <<>>)
                      \o (IF "highlight-fill" \in layers
                          THEN <<Cmd("removeLayer", "highlight-fill")>> ELSE <<>>)
                      \o (IF "highlight-outline" \in layers
                          THEN <<Cmd("removeLayer", "highlight-outline")>> ELSE <<>>)
                      \o (IF "highlight" \in sources
                          THEN <<Cmd("removeSource", "highlight")>> ELSE <<>>)
                      \o r.cmds
    /\ results' = NoResults
    /\ selectedCity' = NoCity
    /\ transition' = NoTransition
    /\ lastOp' = "resetGlobe"
    /\ lastResp' = NoResponse
    /\ UNCHANGED scaleVars
    /\ UNCHANGED windLayerVars
    /\ UNCHANGED <<mapLoaded, styleLoading, onceMoveend, onceStyleLoad, mapRemoved,
                   flightEnd, projection, orbitVars, highlightFeature, markerRef,
                   activeLayer, show3D, windSeries, flowFrame, loops, particleArray,
                   canvas, gpuAlloc, loading, fluxFetches, unmounted, boundaryFetches,
                   nFetch, nSwaps, now, frames>>

\* toggle3D, the 3D button; seed is what init2DArrows draws at random
toggle3D(seed) ==
    /\ ~unmounted
    /\ show3D' = ~show3D
    /\ IF ~show3D
       THEN \* next = true: mercator, fly to the marker, rebuild the 3D layer
            /\ gpuAlloc < MaxAlloc
            /\ seed = particleArray
            /\ projection' = "mercator"
            /\ LET center == IF selectedCity # NoCity /\ markerRef # NoMarker
                             THEN markerRef.city ELSE DefaultAnchor
                   r1 == remove3DLayer(Eng)
                   r2 == add3DLayer(r1.eng)
               IN  /\ flyTarget' = center
                   /\ SetEngine(r2.eng)
                   /\ gpuAlloc' = gpuAlloc + r2.alloc
                   /\ cmds' = <<Cmd("setProjection", "mercator"), Cmd("flyTo", center)>>
                              \o r1.cmds \o r2.cmds
            /\ UNCHANGED <<particleArray, flowFrame, loops, canvas>>
       ELSE \* next = false: drop the 3D layer, globe, restart the 2D arrows
            /\ Len(loops) < MaxLoops
            /\ seed \in Seeds
            /\ projection' = "globe"
            /\ LET r1 == remove3DLayer(Eng)
                   i  == init2DArrows(show3D, seed, flowFrame, windSeries)
               IN  /\ SetEngine(r1.eng)
                   /\ particleArray' = i.particles
                   /\ flowFrame' = i.flowFrame
                   /\ canvas' = i.canvas
                   /\ loops' = i.loops
                   /\ cmds' = r1.cmds \o <<Cmd("setProjection", "globe"),
                                            Cmd("flyTo", "level")>>
            /\ UNCHANGED <<flyTarget, gpuAlloc>>
    /\ transition' = IF ~show3D THEN "to3D" ELSE "to2D"
    /\ lastOp' = "toggle3D"
    /\ lastResp' = NoResponse
    /\ UNCHANGED scaleVars
    /\ UNCHANGED windLayerVars
    /\ UNCHANGED <<mapLoaded, styleLoading, onceMoveend, onceStyleLoad, mapRemoved,
                   markers, flightEnd, orbitVars, selVars, windSeries, results,
                   loading, fluxFetches, unmounted, boundaryFetches, nFetch, nSwaps,
                   now, frames>>

\* a runSimulation that asks the backend whether or not a city is selected:
\* what runSimulationB is compared with
runSimulationAnywhereB(budget) ==
    /\ ~unmounted
    /\ nFetch < budget
    /\ loading' = TRUE
    /\ fluxFetches' = fluxFetches \cup
           {[id |-> nFetch + 1, city |-> selectedCity, show3D |-> show3D]}
    /\ nFetch' = nFetch + 1
    /\ cmds' = <<>>
    /\ lastOp' = "runSimulation"
    /\ lastResp' = NoResponse
    /\ UNCHANGED scaleVars
    /\ UNCHANGED windLayerVars
    /\ UNCHANGED <<engineVars, orbitVars, selVars, show3D, windSeries, flowFrame,
                   loops, particleArray, canvas, gpuAlloc, results, unmounted,
                   boundaryFetches, nSwaps, now, frames>>

\* runSimulation up to its await: alert without a city, else the /flux
\* request; budget bounds the requests issued so far
runSimulationB(budget) ==
    /\ ~unmounted
    /\ IF selectedCity = NoCity
       THEN /\ cmds' = <<Cmd("alert", "Search a city first")>>
            /\ UNCHANGED <<loading, fluxFetches, nFetch>>
       ELSE /\ nFetch < budget
            /\ loading' = TRUE
            /\ fluxFetches' = fluxFetches \cup
                   {[id |-> nFetch + 1, city |-> selectedCity, show3D |-> show3D]}
            /\ nFetch' = nFetch + 1
            /\ cmds' = <<>>
    /\ lastOp' = "runSimulation"
    /\ lastResp' = NoResponse
    /\ UNCHANGED scaleVars
    /\ UNCHANGED windLayerVars
    /\ UNCHANGED <<engineVars, orbitVars, selVars, show3D, windSeries, flowFrame,
                   loops, particleArray, canvas, gpuAlloc, results, unmounted,
                   boundaryFetches, nSwaps, now, frames>>

\* the rest of runSimulation, after the /flux request q was answered; it
\* runs in the closure of the render that started it (q.show3D)
fluxReturnB(q, resp, seed) ==
    /\ q \in fluxFetches
    /\ fluxFetches' = fluxFetches \ {q}
    /\ loading' = FALSE
    /\ IF resp = "throw"
       THEN /\ seed = particleArray
            /\ cmds' = <<>>
            /\ UNCHANGED <<sources, layers, highlightSrc, results, windSeries,
                           flowFrame, loops, particleArray, canvas, gpuAlloc>>
       ELSE /\ results' = [id |-> q.id, data |-> resp]
            /\ windSeries' = WindSeriesOf(resp)
            /\ IF q.show3D
               THEN /\ gpuAlloc < MaxAlloc
                    /\ seed = particleArray
                    /\ LET r1 == remove3DLayer(Eng)
                           r2 == add3DLayer(r1.eng)
                       IN  /\ SetEngine(r2.eng)
                           /\ gpuAlloc' = gpuAlloc + r2.alloc
                           /\ cmds' = r1.cmds \o r2.cmds
                    /\ UNCHANGED <<flowFrame, loops, particleArray, canvas>>
               ELSE IF unmounted
               THEN \* canvasRef.current is null: init2DArrows returns at once
                    /\ seed = particleArray
                    /\ cmds' = <<>>
                    /\ UNCHANGED <<sources, layers, highlightSrc, flowFrame, loops,
                                   particleArray, canvas, gpuAlloc>>
               ELSE /\ Len(loops) < MaxLoops
                    /\ seed \in Seeds
                    /\ LET i == init2DArrows(q.show3D, seed, flowFrame,
                                             WindSeriesOf(resp))
                       IN  /\ particleArray' = i.particles
                           /\ flowFrame' = i.flowFrame
                           /\ canvas' = i.canvas
                           /\ loops' = i.loops
                    /\ cmds' = <<>>
                    /\ UNCHANGED <<sources, layers, highlightSrc, gpuAlloc>>
    /\ lastOp' = "fluxReturn"
    /\ lastResp' = resp
    /\ UNCHANGED scaleVars
    /\ UNCHANGED windLayerVars
    /\ UNCHANGED <<mapLoaded, styleLoading, onceMoveend, onceStyleLoad, mapRemoved,
                   markers, flyTarget, flightEnd, transition, projection, orbitVars, selVars,
                   show3D, unmounted, boundaryFetches, nFetch, nSwaps, now, frames>>

\* the component is unmounted; B's mount effect returns no cleanup
unmountB ==
    /\ ~unmounted
    /\ unmounted' = TRUE
    /\ cmds' = <<>>
    /\ lastOp' = "unmount"
    /\ lastResp' = NoResponse
    /\ UNCHANGED scaleVars
    /\ UNCHANGED windLayerVars
    /\ UNCHANGED <<engineVars, orbitVars, selVars, flowVars, boundaryFetches,
                   nFetch, nSwaps, now, frames>>

\* the camera flight of a projection transition arrives; B has no handler
\* for it
transitionEndsB ==
    /\ transition # NoTransition
    /\ transition' = NoTransition
    /\ cmds' = <<>>
    /\ lastOp' = "moveend"
    /\ lastResp' = NoResponse
    /\ UNCHANGED scaleVars
    /\ UNCHANGED windLayerVars
    /\ UNCHANGED <<mapLoaded, styleLoading, sources, layers, highlightSrc,
                   onceMoveend, onceStyleLoad, mapRemoved, markers, flyTarget,
                   flightEnd, projection, orbitVars, selVars, flowVars, unmounted,
                   boundaryFetches, nFetch, nSwaps, now, frames>>

-----------------------------------------------------------------------------
(* Variant A: src/unnamed/part_000, lines 1-323 *)

\* the layer buttons of A
LayersA == {"satellite", "streets", "terrain", "buildings"}

\* the inner once("style.load") handler of handleLayerChange("buildings"):
\* re-add the DEM source, the terrain and the buildings layer, unguarded
rebuildTerrainA(e) ==
    IF e.loading \/ "mapbox-dem" \in e.sources
    THEN \* addSource throws: style not done loading, or source already exists
         [eng |-> e,
          cmds |-> <<Cmd("addSource", "mapbox-dem"), Cmd("throw", "addSource")>>,
          threw |-> TRUE]
    ELSE IF "3d-buildings" \in e.layers \/ "composite" \notin e.sources
    THEN \* addLayer reports through an error event and adds nothing
         [eng |-> [e EXCEPT !.sources = @ \cup {"mapbox-dem"}],
          cmds |-> <<Cmd("addSource", "mapbox-dem"), Cmd("setTerrain", "mapbox-dem"),
                     Cmd("addLayer", "3d-buildings"), Cmd("error", "addLayer")>>,
          threw |-> FALSE]
    ELSE [eng |-> [e EXCEPT !.sources = @ \cup {"mapbox-dem"},
                            !.layers = @ \cup {"3d-buildings"}],
          cmds |-> <<Cmd("addSource", "mapbox-dem"), Cmd("setTerrain", "mapbox-dem"),
                     Cmd("addLayer", "3d-buildings")>>,
          threw |-> FALSE]

\* one once("style.load") handler h of A run on st = [eng, q, cmds, threw];
\* q holds the handlers registered while the event is being delivered
layerHandlerA(st, h) ==
    IF h[1] = "rebuild"
    THEN LET r == rebuildTerrainA(st.eng)
         IN  [eng |-> r.eng, q |-> st.q, cmds |-> st.cmds \o r.cmds,
              threw |-> r.threw]
    ELSE IF h[2] = "buildings"
    THEN [eng |-> StyleDiscarded(st.eng),
          q |-> Append(st.q, <<"rebuild">>),
          cmds |-> st.cmds \o <<Cmd("setStyle", "satellite"),
                                 Cmd("once", "style.load")>>,
          threw |-> FALSE]
    ELSE st

\* the engine delivers "style.load" to the once handlers hs in order; a
\* handler that throws ends the delivery and the rest stay registered
RECURSIVE fireStyleLoadA(_, _)
fireStyleLoadA(st, hs) ==
    IF hs = <<>> THEN st
    ELSE IF st.threw THEN [st EXCEPT !.q = hs \o @]
    ELSE fireStyleLoadA(layerHandlerA(st, Head(hs)), Tail(hs))

\* the engine finishes loading a style and emits "style.load"
styleLoadA ==
    /\ styleLoading
    /\ LET r == fireStyleLoadA([eng |-> StyleLoaded(Eng), q |-> <<>>,
                                cmds |-> <<>>, threw |-> FALSE], onceStyleLoad)
       IN  /\ SetEngine(r.eng)
           /\ styleLoading' = r.eng.loading
           /\ onceStyleLoad' = r.q
           /\ cmds' = r.cmds
    /\ lastOp' = "style.load"
    /\ lastResp' = NoResponse
    /\ UNCHANGED scaleVars
    /\ UNCHANGED windLayerVars
    /\ UNCHANGED <<mapLoaded, onceMoveend, mapRemoved, markers, flyTarget,
                   flightEnd, transition, projection, orbitVars, selVars, flowVars, unmounted,
                   boundaryFetches, nFetch, nSwaps, now, frames>>

\* the map's "load" handler of A: fog, first animateOrbit call, DEM source
\* and buildings layer, both unguarded
mapLoadA ==
    /\ ~mapLoaded
    /\ ~styleLoading
    /\ mapLoaded' = TRUE
    /\ bearing' = animateOrbitF.bearing
    /\ animFrame' = TRUE
    /\ LET r == rebuildTerrainA(Eng)
           c == IF r.threw THEN r.cmds
                ELSE SelectSeq(r.cmds, LAMBDA x : x[1] # "setTerrain")
       IN  /\ SetEngine(r.eng)
           /\ cmds' = <<Cmd("setFog", "map")>> \o animateOrbitF.cmds \o c
    /\ lastOp' = "load"
    /\ lastResp' = NoResponse
    /\ UNCHANGED scaleVars
    /\ UNCHANGED windLayerVars
    /\ UNCHANGED <<styleLoading, onceMoveend, onceStyleLoad, mapRemoved, markers,
                   flyTarget, flightEnd, transition, projection, rotating, mode, resumeTimer,
                   selVars, flowVars, unmounted, boundaryFetches, nFetch, nSwaps,
                   now, frames>>

\* handleLayerChange(layer) of A: setStyle for a basemap, and always one
\* more once("style.load") handler
handleLayerChangeA(layer) ==
    /\ Len(onceStyleLoad) < MaxPending
    /\ IF layer = "buildings"
       THEN /\ cmds' = <<Cmd("once", "style.load")>>
            /\ UNCHANGED <<sources, layers, highlightSrc, styleLoading, nSwaps>>
       ELSE /\ nSwaps < MaxSwaps
            /\ nSwaps' = nSwaps + 1
            /\ SetEngine(StyleDiscarded(Eng))
            /\ styleLoading' = TRUE
            /\ cmds' = <<Cmd("setStyle", layer), Cmd("once", "style.load")>>
    /\ onceStyleLoad' = Append(onceStyleLoad, <<"layer", layer>>)
    /\ activeLayer' = layer
    /\ lastOp' = "handleLayerChange"
    /\ lastResp' = NoResponse
    /\ UNCHANGED scaleVars
    /\ UNCHANGED windLayerVars
    /\ UNCHANGED <<mapLoaded, onceMoveend, mapRemoved, markers, flyTarget,
                   flightEnd, transition, projection, orbitVars, highlightFeature, selectedCity,
                   markerRef, flowVars, unmounted, boundaryFetches, nFetch, now,
                   frames>>

-----------------------------------------------------------------------------
(* WindLayer: src/unnamed/part_001 *)

\* (Math.random() - 0.5) * 2, in half degrees, for the draws the walk is
\* given here: -1 degree and +0.5 degree
Displacements == {0 - 2, 1}

\* a particle of initializeState for the random draw r, in thousandths:
\* lon = r * 360 - 180, lat = r * 180 - 90; the two draws are taken equal
InitialParticle(r) ==
    [lon |-> ((r * 2 * LonMax) \div 1000) - LonMax,
     lat |-> ((r * 2 * LatMax) \div 1000) - LatMax]

\* an updateParticles step that moves a particle and never wraps it: what
\* moveParticle is compared with
moveParticleUnwrapped(p, dlon, dlat) ==
    [lon |-> p.lon + dlon, lat |-> p.lat + dlat]

\* the body of updateParticles' forEach for one particle: the random move,
\* then the four wrap tests in the order of the code
moveParticle(p, dlon, dlat) ==
    LET lon0 == p.lon + dlon
        lat0 == p.lat + dlat
        lon1 == IF lon0 > LonMax THEN lon0 - 2 * LonMax ELSE lon0
        lon2 == IF lon1 < 0 - LonMax THEN lon1 + 2 * LonMax ELSE lon1
        lat1 == IF lat0 > LatMax THEN 0 - LatMax ELSE lat0
        lat2 == IF lat1 < 0 - LatMax THEN LatMax ELSE lat1
    IN  [lon |-> lon2, lat |-> lat2]

\* initializeState: numParticles particles at random places
initializeState(seed) ==
    /\ particles = <<>>
    /\ seed \in [1..numParticles -> {InitialParticle(r) : r \in RandomDraws}]
    /\ particles' = seed
    /\ cmds' = <<>>
    /\ lastOp' = "initializeState"
    /\ lastResp' = NoResponse
    /\ UNCHANGED <<engineVars, orbitVars, selVars, flowVars, scaleVars, nUpdates,
                   unmounted, boundaryFetches, nFetch, nSwaps, now, frames>>

\* updateParticles, called by every draw(); d gives each particle its two
\* random displacements
updateParticles(d) ==
    /\ particles # <<>>
    /\ nUpdates < MaxUpdates
    /\ d \in [DOMAIN particles -> Displacements \X Displacements]
    /\ particles' = [i \in DOMAIN particles |->
                        moveParticle(particles[i], d[i][1], d[i][2])]
    /\ nUpdates' = nUpdates + 1
    /\ cmds' = <<>>
    /\ lastOp' = "updateParticles"
    /\ lastResp' = NoResponse
    /\ UNCHANGED <<engineVars, orbitVars, selVars, flowVars, scaleVars, unmounted,
                   boundaryFetches, nFetch, nSwaps, now, frames>>

-----------------------------------------------------------------------------
(* Specifications *)

\* F without the resume timer: selection, highlight, basemap swaps, frames, unmount
NextF ==
    \/ styleLoadF
    \/ mapLoadF
    \/ displayFrameF(MaxFrames)
    \/ \E c \in Cities : geocoderResultF(c)
    \/ \E f \in boundaryFetches, resp \in BoundaryResponses : boundaryReturnF(f, resp)
    \/ interruptFlightF
    \/ moveendF
    \/ \E l \in {"satellite", "streets"} : handleLayerChangeF(l)
    \/ unmountF

SpecF == Init /\ [][NextF]_vars

\* F's orbit under the clock: pause, resume timer, selection and arrival
NextTimerF ==
    \/ styleLoadF
    \/ mapLoadF
    \/ displayFrameF(MaxFrames)
    \/ pauseOrbitF
    \/ resumeTimerFiresF
    \/ advanceTime
    \/ \E c \in Cities : geocoderResultF(c)
    \/ \E f \in boundaryFetches, resp \in BoundaryResponses : boundaryReturnF(f, resp)
    \/ moveendF

SpecTimerF == Init /\ [][NextTimerF]_vars

\* F's orbit with pauses and resumes, no selection
NextPauseF ==
    \/ styleLoadF
    \/ mapLoadF
    \/ displayFrameF(MaxFrames)
    \/ pauseOrbitF
    \/ resumeTimerFiresF
    \/ advanceTime

SpecPauseF == Init /\ [][NextPauseF]_vars

\* F's idle orbit over many frames, with no interaction
NextOrbitF ==
    \/ styleLoadF
    \/ mapLoadF
    \/ displayFrameF(OrbitFrames)

SpecOrbitF == Init /\ [][NextOrbitF]_vars

\* F: simulation runs for one selected city and the wind-speed slider
NextScaleF ==
    \/ styleLoadF
    \/ mapLoadF
    \/ selectedCity = NoCity /\ \E c \in Cities : geocoderResultF(c)
    \/ runSimulationF(RunRequests)
    \/ \E q \in fluxFetches, resp \in RawResponses : fluxReturnF(q, resp)
    \/ \E w \in SliderMin..SliderMax : setWindSpeedF(w)

SpecScaleF == Init /\ [][NextScaleF]_vars

\* A: layer buttons and the style.load handlers they register
NextLayersA ==
    \/ styleLoadA
    \/ mapLoadA
    \/ \E layer \in LayersA : handleLayerChangeA(layer)

SpecLayersA == Init /\ [][NextLayersA]_vars

\* B: selection, highlight, basemap swaps and reset
NextStyleB ==
    \/ \E k \in 0..3 : styleLoadB(k)
    \/ \E k \in 0..2 : mapLoadB(k)
    \/ \E b \in {"satellite", "streets"} : setStyleB(b)
    \/ \E c \in Cities : geocoderResultB(c)
    \/ \E f \in boundaryFetches, resp \in BoundaryResponses,
          ready \in StyleLoadedAnswers : boundaryReturnB(f, resp, ready)
    \/ resetGlobeB

SpecStyleB == Init /\ [][NextStyleB]_vars

\* B: basemap swaps in 2D and 3D mode
NextReplayB ==
    \/ \E k \in 0..3 : styleLoadB(k)
    \/ \E k \in 0..2 : mapLoadB(k)
    \/ \E b \in {"satellite", "streets"} : setStyleB(b)
    \/ \E seed \in Seeds \cup {particleArray} : toggle3D(seed)

SpecReplayB == Init /\ [][NextReplayB]_vars

\* B: selection, reset, projection toggles and camera flights
NextToggleB ==
    \/ \E k \in 0..3 : styleLoadB(k)
    \/ \E k \in 0..2 : mapLoadB(k)
    \/ \E c \in Cities : geocoderResultB(c)
    \/ \E f \in boundaryFetches, resp \in BoundaryResponses,
          ready \in StyleLoadedAnswers : boundaryReturnB(f, resp, ready)
    \/ resetGlobeB
    \/ \E seed \in Seeds \cup {particleArray} : toggle3D(seed)
    \/ transitionEndsB

SpecToggleB == Init /\ [][NextToggleB]_vars

\* B: the point-cloud layer under selection, reset and projection toggles
NextDisposeB ==
    \/ \E k \in 0..3 : styleLoadB(k)
    \/ \E k \in 0..2 : mapLoadB(k)
    \/ \E c \in Cities : geocoderResultB(c)
    \/ resetGlobeB
    \/ \E seed \in Seeds \cup {particleArray} : toggle3D(seed)

SpecDisposeB == Init /\ [][NextDisposeB]_vars

\* B: simulation runs with and without a selected city
NextRunB ==
    \/ \E k \in 0..3 : styleLoadB(k)
    \/ \E k \in 0..2 : mapLoadB(k)
    \/ \E c \in Cities : geocoderResultB(c)
    \/ resetGlobeB
    \/ runSimulationB(RunRequests)
    \/ \E q \in fluxFetches, resp \in FluxResponses,
          seed \in Seeds \cup {particleArray} : fluxReturnB(q, resp, seed)

SpecRunB == Init /\ [][NextRunB]_vars

\* B: the 2D and 3D renderers, simulation runs, frames, unmount
NextRenderB ==
    \/ \E k \in 0..3 : styleLoadB(k)
    \/ \E k \in 0..2 : mapLoadB(k)
    \/ \E rnd \in RandomDraws : displayFrameB(MaxFrames, rnd)
    \/ \E c \in Cities : geocoderResultB(c)
    \/ \E seed \in Seeds \cup {particleArray} : toggle3D(seed)
    \/ runSimulationB(MaxRequests)
    \/ \E q \in fluxFetches, resp \in FluxResponses,
          seed \in Seeds \cup {particleArray} : fluxReturnB(q, resp, seed)
    \/ unmountB

SpecRenderB == Init /\ [][NextRenderB]_vars

\* B: the 2D renderer started by one simulation run and the frames that
\* follow, long enough for a particle to reach the age cap.  The frames
\* before the draw loop starts only turn the globe and are left out, and so
\* are the runs requested while a run is outstanding or a loop is live.
\* The style is ready whenever the load handlers ask, and one city is
\* selected.
NextParticlesB ==
    \/ styleLoadB(3)
    \/ mapLoadB(2)
    \/ selectedCity = NoCity /\ \E c \in Cities : geocoderResultB(c)
    \/ \E f \in boundaryFetches, resp \in BoundaryResponses,
          ready \in StyleLoadedAnswers : boundaryReturnB(f, resp, ready)
    \/ loops = <<>> /\ fluxFetches = {} /\ runSimulationB(MaxRequests)
    \/ \E q \in fluxFetches, resp \in FluxResponses,
          seed \in Seeds \cup {particleArray} : fluxReturnB(q, resp, seed)
    \/ loops # <<>> /\ \E rnd \in RandomDraws : displayFrameB(ParticleFrames, rnd)

SpecParticlesB == Init /\ [][NextParticlesB]_vars

\* B: repeated simulation runs in 2D mode, each replacing the wind series and
\* starting a draw loop, and the frames between them.  The style is ready
\* whenever the load handlers ask, and one city is selected.
NextSeriesB ==
    \/ styleLoadB(3)
    \/ mapLoadB(2)
    \/ selectedCity = NoCity /\ \E c \in Cities : geocoderResultB(c)
    \/ runSimulationB(RunRequests)
    \/ \E q \in fluxFetches, resp \in FluxResponses,
          seed \in Seeds \cup {particleArray} : fluxReturnB(q, resp, seed)
    \/ loops # <<>> /\ \E rnd \in RandomDraws : displayFrameB(MaxFrames, rnd)

SpecSeriesB == Init /\ [][NextSeriesB]_vars

\* the WindLayer on its own: construction, then one updateParticles per draw()
NextWindLayer ==
    \/ \E seed \in [1..numParticles -> {InitialParticle(r) : r \in RandomDraws}] :
          initializeState(seed)
    \/ \E d \in [DOMAIN particles -> Displacements \X Displacements] :
          updateParticles(d)

SpecWindLayer == Init /\ [][NextWindLayer]_vars

-----------------------------------------------------------------------------
(* Properties *)

HighlightRegistered(f) ==
    /\ "highlight" \in sources
    /\ HighlightLayers \subseteq layers
    /\ highlightSrc = f

HighlightAbsent ==
    /\ "highlight" \notin sources
    /\ layers \cap HighlightLayers = {}

(***************************************************************************)
(* C1.  Once a highlight feature f is stored, every basemap swap followed  *)
(* by the style.load restore leaves the "highlight" source and both the    *)
(* "highlight-fill" and "highlight-outline" layers registered, the source  *)
(* holding that same f: whenever the style is loaded and a feature is      *)
(* stored, the engine holds the highlight of exactly that feature.         *)
(***************************************************************************)
C1_HighlightRestored ==
    (mapLoaded /\ ~styleLoading /\ ~mapRemoved /\ highlightFeature # NoFeature)
        => HighlightRegistered(highlightFeature)

\* a swap has happened, the restore has just run and re-added the stored feature
C1_Witness ==
    /\ lastOp = "style.load"
    /\ nSwaps > 0
    /\ highlightFeature # NoFeature
    /\ HighlightRegistered(highlightFeature)
    /\ cmds = <<Cmd("addSource", "highlight"), Cmd("addLayer", "highlight-fill"),
                Cmd("addLayer", "highlight-outline")>>

(***************************************************************************)
(* C4.  The rotating flag does not become true earlier than 5 s after the  *)
(* last pauseOrbit call: while the resume timer set by the last pauseOrbit *)
(* is still pending and not yet due, no step turns rotating on.            *)
(***************************************************************************)
C4_NoResumeBeforeDelay ==
    [][(~rotating /\ rotating') => (resumeTimer = NoTimer \/ now >= resumeTimer)]_vars

(***************************************************************************)
(* C5.  Between a location selection and the arrival of its fly-to (its    *)
(* /boundary request outstanding, or its moveend handler still pending)    *)
(* no frame tick advances the bearing or pushes a camera pose.             *)
(***************************************************************************)
C5_NoTickBeforeArrival ==
    (lastOp = "animateOrbit" /\ (boundaryFetches # {} \/ onceMoveend))
        => cmds = <<>>

(***************************************************************************)
(* C6.  After N consecutive unpaused ticks in globe mode the bearing       *)
(* committed to the engine is (bearing_0 + N * step) mod 360 degrees, and  *)
(* so lies in [0, 360).  Here bearing_0 = 0 and N = frames + 1 (the load   *)
(* handler makes the first call).                                          *)
(***************************************************************************)
C6_BearingModulo ==
    (mapLoaded /\ rotating /\ mode = "globe")
        => bearing = (0 + (frames + 1) * GlobeStep) % FullTurn

(***************************************************************************)
(* C9.  After teardown no frame callback, timer callback or late fetch     *)
(* continuation runs or issues a command to the engine.                    *)
(***************************************************************************)
C9_QuietAfterTeardownF ==
    unmounted => (lastOp = "unmount" /\ cmds = <<Cmd("remove", "map")>>)

(***************************************************************************)
(* C2.  Clearing the selection nulls the stored highlight feature: right   *)
(* after resetGlobe no feature is stored, and a style-ready restore that   *)
(* follows a basemap swap with no city selected and no boundary request    *)
(* outstanding leaves no highlight source or layer registered.             *)
(***************************************************************************)
C2_ResetClearsStoredFeature ==
    /\ lastOp = "resetGlobe" => highlightFeature = NoFeature
    /\ (lastOp = "style.load" /\ nSwaps > 0 /\ mapLoaded
          /\ selectedCity = NoCity /\ boundaryFetches = {})
       => HighlightAbsent

(***************************************************************************)
(* C3.  The style-ready replay after a basemap swap in 3D mode, with a     *)
(* point cloud built, leaves the 'flux-3d-particles' layer registered.     *)
(***************************************************************************)
C3_ReplayReattaches3D ==
    (lastOp = "style.load" /\ nSwaps > 0 /\ mapLoaded /\ show3D /\ gpuAlloc > 0)
    => ThreeLayerId \in layers

(***************************************************************************)
(* C7.  At most one renderer variant is active: a display frame that runs  *)
(* while the 'flux-3d-particles' layer is registered draws no 2D arrows,   *)
(* that is, it neither ages the particles nor advances the frame cursor.   *)
(***************************************************************************)
C7_OneRendererActive ==
    [][(lastOp' = "frame" /\ ThreeLayerId \in layers)
       => (particleArray' = particleArray /\ flowFrame' = flowFrame)]_vars

(***************************************************************************)
(* C8.  At most one point-cloud resource set is allocated and not          *)
(* released, the 'flux-3d-particles' layer is registered only in 3D mode,  *)
(* and in 2D mode no resource set is left allocated.                       *)
(***************************************************************************)
C8_OneResourceSet ==
    /\ gpuAlloc <= 1
    /\ ~show3D => (ThreeLayerId \notin layers /\ gpuAlloc = 0)

(***************************************************************************)
(* C10.  A simulation result that arrives while a renderer variant is      *)
(* active replaces the wind series only: no draw loop is started, no       *)
(* point cloud is built and no layer command is issued.                    *)
(***************************************************************************)
C10_RerunKeepsRenderer ==
    [][(lastOp' = "fluxReturn" /\ results' # results
          /\ (loops # <<>> \/ ThreeLayerId \in layers))
       => (loops' = loops /\ gpuAlloc' = gpuAlloc /\ cmds' = <<>>)]_vars

(***************************************************************************)
(* C11.  In 2D mode with a non-empty wind series a display frame advances  *)
(* the frame cursor of the mounted component by exactly one, wrapping at   *)
(* the series length, whatever runs and toggles came before.               *)
(***************************************************************************)
C11_CursorAdvancesOnce ==
    [][(lastOp' = "frame" /\ ~unmounted /\ ~show3D /\ windSeries # <<>>)
       => flowFrame' = (flowFrame + 1) % Len(windSeries)]_vars

(***************************************************************************)
(* C12.  While show3D is true a display frame leaves the 2D renderer's     *)
(* state alone: no particle is aged and the frame cursor does not move,    *)
(* also for a draw loop that was started in 2D mode.                       *)
(***************************************************************************)
C12_SuppressedIn3D ==
    [][(lastOp' = "frame" /\ show3D)
       => (particleArray' = particleArray /\ flowFrame' = flowFrame)]_vars

(***************************************************************************)
(* C13.  A location selection puts the mode to focus, a reset puts it back *)
(* to globe, and no other step changes the mode.                           *)
(***************************************************************************)
C13_ModeFollowsSelection ==
    [][/\ lastOp' = "result" => mode' = "focus"
       /\ lastOp' = "resetGlobe" => mode' = "globe"
       /\ mode' # mode => lastOp' \in {"result", "resetGlobe"}]_vars

(***************************************************************************)
(* C14.  With the map loaded and no location selected the idle orbit is    *)
(* enabled: the frame loop is scheduled, the mode is globe and rotation is *)
(* on, so that the next frames advance the bearing; in particular reset    *)
(* re-enables rotation.                                                    *)
(***************************************************************************)
C14_IdleOrbitEnabled ==
    (mapLoaded /\ selectedCity = NoCity)
    => (animFrame /\ mode = "globe" /\ rotating)

C16_ReplayIdempotent ==
    (lastOp = "style.load" /\ mapLoaded)
    => \A i \in DOMAIN cmds : cmds[i][1] \notin {"throw", "error"}

(***************************************************************************)
(* C17.  One projection transition at a time: toggle3D is applied only     *)
(* when no earlier transition's camera flight is still in progress.        *)
(***************************************************************************)
C17_OneTransitionInFlight ==
    [][lastOp' = "toggle3D" => transition = NoTransition]_vars

(***************************************************************************)
(* C18.  In a display frame of the mounted component, once the map has     *)
(* loaded, the orbit tick runs and the flow-field repaint is invoked at    *)
(* most once: no more than one draw loop is scheduled.                     *)
(***************************************************************************)
C18_OneRepaintPerFrame ==
    (lastOp = "frame" /\ mapLoaded /\ ~unmounted)
    => (animFrame /\ Len(loops) <= 1)

(***************************************************************************)
(* C19.  The style-ready replay completes inside its handler: after a      *)
(* "style.load" event of the loaded map nothing was handed to              *)
(* once("style.load"), and the terrain source, the buildings layer and     *)
(* the stored highlight are registered.                                    *)
(***************************************************************************)
C19_ReplaySynchronous ==
    (lastOp = "style.load" /\ mapLoaded)
    => /\ \A i \in DOMAIN cmds : cmds[i] # Cmd("once", "style.load")
       /\ "mapbox-dem" \in sources
       /\ "3d-buildings" \in layers
       /\ highlightFeature # NoFeature => HighlightRegistered(highlightFeature)

(***************************************************************************)
(* C20.  The 'flux-3d-particles' layer is registered exactly when show3D   *)
(* is true: a step that starts on the loaded map and style with the two in *)
(* agreement and loads no new style ends with them in agreement.           *)
(***************************************************************************)
C20_LayerIffShow3D ==
    [][(mapLoaded /\ ~styleLoading /\ ~styleLoading'
          /\ (ThreeLayerId \in layers <=> show3D))
       => (ThreeLayerId \in layers' <=> show3D')]_vars

C22_FailedRunKeepsState ==
    [][(lastOp' = "fluxReturn" /\ lastResp' \in {"noSeries", "throw"})
       => /\ windSeries' = windSeries
          /\ results' = results
          /\ loops' = loops
          /\ layers' = layers
          /\ gpuAlloc' = gpuAlloc]_vars

\* position p lies in the bounds b
InBounds(p, b) ==
    /\ b.west <= p.lon /\ p.lon <= b.east
    /\ b.south <= p.lat /\ p.lat <= b.north

(***************************************************************************)
(* C23.  In every repaint of the 2D renderer a particle is respawned, that *)
(* is placed inside the map bounds of that moment with age 0, exactly when *)
(* its incremented age exceeds the cap of 300; otherwise its age grows by  *)
(* one and it only drifts.  So after every repaint each age is in          *)
(* [0, 300], and every position init2DArrows can seed lies in the bounds   *)
(* of the moment.                                                          *)
(***************************************************************************)
C23_RespawnAtCap ==
    [][/\ \A s \in Seeds : \A i \in DOMAIN s :
             InBounds(s[i], Bounds) /\ s[i].age \in 0..AgeCap
       /\ (lastOp' = "frame" /\ loops = <<FALSE>> /\ windSeries # <<>>)
          => \A i \in DOMAIN particleArray :
                LET p == particleArray[i]
                    q == particleArray'[i]
                    d == DriftBase + DriftCap
                IN  /\ q.age \in 0..AgeCap
                    /\ IF p.age + 1 > AgeCap
                       THEN q.age = 0 /\ InBounds(q, Bounds)
                       ELSE /\ q.age = p.age + 1
                            /\ q.lon \in (p.lon - d)..(p.lon + d)
                            /\ q.lat \in (p.lat - d)..(p.lat + d)]_vars

\* a particle seeded in the view of the whole globe has just been respawned
\* in the view of the selected city
C23_Witness ==
    /\ lastOp = "frame"
    /\ loops = <<FALSE>>
    /\ frames > 100
    /\ flyTarget \in Cities
    /\ particleArray[1].age = 0
    /\ InBounds(particleArray[1], Bounds)

(***************************************************************************)
(* C24.  A repaint of the 2D renderer reads the wind frame at the cursor,  *)
(* with direction d in [0, 360) and speed s >= 0.  Every particle is drawn *)
(* with the same heading (d + 180) mod 360 (90 -> 270) and the same arrow  *)
(* length min(18, s * 0.5) pixels (4 -> 2; lengths are in half pixels      *)
(* here), and every particle that is not respawned has moved by a positive *)
(* step along that heading.                                                *)
(***************************************************************************)
C24_ArrowsFollowFrame ==
    [][(lastOp' = "frame" /\ loops = <<FALSE>> /\ windSeries # <<>>)
       => LET f == windSeries[flowFrame + 1]
              h == (f.direction_deg + 180) % 360
              l == IF f.speed_ms < 2 * 18 THEN f.speed_ms ELSE 2 * 18
          IN  /\ DOMAIN canvas' = DOMAIN particleArray
              /\ \A i \in DOMAIN canvas' : canvas'[i] = [heading |-> h, len |-> l]
              /\ \A i \in DOMAIN particleArray :
                    \/ particleArray'[i].age = 0
                    \/ \E step \in 1..(DriftBase + DriftCap) :
                          /\ particleArray'[i].lon - particleArray[i].lon
                                = step * (CASE h = 90 -> 1 [] h = 270 -> 0 - 1 [] OTHER -> 0)
                          /\ particleArray'[i].lat - particleArray[i].lat
                                = step * (CASE h = 0 -> 1 [] h = 180 -> 0 - 1 [] OTHER -> 0)]_vars

\* the scenario of the spec: direction 90 and speed 4 give arrows heading 270
\* of length 2 pixels, on every particle
C24_Witness ==
    /\ lastOp = "frame"
    /\ loops = <<FALSE>>
    /\ windSeries = <<[direction_deg |-> 90, speed_ms |-> 4]>>
    /\ canvas # <<>>
    /\ \A i \in DOMAIN canvas : canvas[i] = [heading |-> 270, len |-> 4]
    /\ frames > 0

(***************************************************************************)
(* C25.  remove3DLayer removes the 'flux-3d-particles' layer when it is    *)
(* registered, with one removeLayer command, and is a no-op otherwise: no  *)
(* command is issued and no source or layer changes.  It is the last       *)
(* engine call of resetGlobe and the only one of a toggle to 2D that       *)
(* touches the layers, and after either the layer is not registered.       *)
(***************************************************************************)
C25_DisposeRemovesLayer ==
    [][(lastOp' = "resetGlobe" \/ (lastOp' = "toggle3D" /\ show3D))
       => /\ ThreeLayerId \notin layers'
          /\ Len(SelectSeq(cmds', LAMBDA c : c = Cmd("removeLayer", ThreeLayerId)))
                = (IF ThreeLayerId \in layers THEN 1 ELSE 0)
          /\ \A i \in DOMAIN cmds' : cmds'[i][1] \notin {"throw", "error"}
          /\ layers' \ HighlightLayers = (layers \ HighlightLayers) \ {ThreeLayerId}
          /\ sources' \ {"highlight"} = sources \ {"highlight"}]_vars

\* a toggle back to 2D after a reset in 3D mode already took the layer away:
\* remove3DLayer found nothing to remove and commanded nothing
C25_Witness ==
    /\ lastOp = "toggle3D"
    /\ ~show3D
    /\ mapLoaded
    /\ gpuAlloc > 0
    /\ selectedCity = NoCity
    /\ ThreeLayerId \notin layers
    /\ cmds = <<Cmd("setProjection", "globe"), Cmd("flyTo", "level")>>

(***************************************************************************)
(* C26.  A frame tick while the orbit is paused (rotating false) leaves    *)
(* the bearing unchanged and pushes no camera pose; a tick while unpaused  *)
(* changes the bearing and pushes exactly one jumpTo that carries the new  *)
(* bearing.  Either way the next frame is scheduled.                       *)
(***************************************************************************)
C26_TickRespectsPause ==
    [][lastOp' = "animateOrbit"
       => /\ animFrame'
          /\ IF rotating
             THEN /\ bearing' # bearing
                  /\ \E m \in {"globe", "focus"} :
                        cmds' = <<Cmd("jumpTo", [mode |-> m, bearing |-> bearing'])>>
             ELSE /\ bearing' = bearing
                  /\ cmds' = <<>>]_vars

\* a tick ran while pauseOrbit's resume timer was pending: nothing was pushed
\* and the loop is still scheduled
C26_Witness ==
    /\ lastOp = "animateOrbit"
    /\ ~rotating
    /\ resumeTimer # NoTimer
    /\ cmds = <<>>
    /\ animFrame
    /\ frames > 0

(***************************************************************************)
(* C27.  runSimulation invoked while no city is selected only alerts the   *)
(* user: no request is issued and loading, results, wind series, the draw  *)
(* loops, the particles and the engine's sources and layers are unchanged. *)
(***************************************************************************)
C27_NoCityNoRequest ==
    [][(lastOp' = "runSimulation" /\ selectedCity = NoCity)
       => /\ Len(cmds') = 1
          /\ cmds'[1][1] = "alert"
          /\ fluxFetches' = fluxFetches
          /\ nFetch' = nFetch
          /\ loading' = loading
          /\ results' = results
          /\ windSeries' = windSeries
          /\ loops' = loops
          /\ particleArray' = particleArray
          /\ gpuAlloc' = gpuAlloc
          /\ layers' = layers
          /\ sources' = sources]_vars

\* a city was selected and the selection reset; the run that follows alerts
\* and asks nothing
C27_Witness ==
    /\ lastOp = "runSimulation"
    /\ selectedCity = NoCity
    /\ markerRef # NoMarker
    /\ cmds = <<Cmd("alert", "Search a city first")>>
    /\ fluxFetches = {}
    /\ ~loading

(***************************************************************************)
(* C28.  When locations are selected in succession, then once every        *)
(* /boundary request has been answered, in whatever order, the camera was  *)
(* last sent to the most recently selected location, whose marker is       *)
(* shown, and a boundary that has just been stored and attached is that    *)
(* location's.                                                             *)
(***************************************************************************)
C28_LatestSelectionWins ==
    (lastOp = "boundaryReturn" /\ boundaryFetches = {} /\ ~unmounted)
    => /\ flyTarget = selectedCity
       /\ markerRef.city = selectedCity
       /\ (lastResp = "geojson" /\ ~styleLoading)
          => /\ highlightFeature = Boundary(selectedCity)
             /\ HighlightRegistered(Boundary(selectedCity))

(***************************************************************************)
(* C29.  When the only outstanding /boundary request is that of the        *)
(* current selection and it fails, no highlight of a previously selected   *)
(* location remains: the stored feature is absent or the boundary of the   *)
(* selected location, and so is what the highlight layers show.            *)
(***************************************************************************)
C29_NoStaleHighlight ==
    [][(/\ lastOp' = "boundaryReturn"
        /\ lastResp' \in {"error", "throw"}
        /\ boundaryFetches = {[id |-> markerRef.id, city |-> selectedCity]}
        /\ ~unmounted)
       => /\ highlightFeature' \in {NoFeature, Boundary(selectedCity')}
          /\ highlightSrc' \in {NoFeature, Boundary(selectedCity')}]_vars

(***************************************************************************)
(* C30.  When runSimulation is invoked twice, the displayed results and    *)
(* the wind series that drives the renderer end up those of the later      *)
(* request whatever the order of the answers: an answer never replaces the *)
(* results of a request issued after its own.                              *)
(***************************************************************************)
C30_LaterRunWins ==
    [][(lastOp' = "fluxReturn" /\ lastResp' # "throw")
       => /\ results'.id >= results.id
          /\ windSeries' = WindSeriesOf(results'.data)]_vars

(***************************************************************************)
(* C31.  The loading flag is true exactly while at least one /flux request *)
(* is outstanding: it is never false while a request is still in flight,   *)
(* and never true when none is.                                            *)
(***************************************************************************)
C31_LoadingWhileOutstanding ==
    loading <=> fluxFetches # {}

(***************************************************************************)
(* C32.  After a toggle from 3D back to 2D with a non-empty wind series    *)
(* stored, the draw loop that toggle3D started draws arrows on the frames  *)
(* that follow: a display frame in 2D mode with a loop running and a       *)
(* non-empty series leaves arrows on the canvas.                           *)
(***************************************************************************)
C32_ToggledLoopDraws ==
    [][(lastOp' = "frame" /\ ~unmounted /\ ~show3D /\ windSeries # <<>>
          /\ loops # <<>>)
       => canvas' # <<>>]_vars

(***************************************************************************)
(* C33.  Every read of the wind series by a repaint of the 2D renderer is  *)
(* at an index in [0, length): the repaint that init2DArrows runs when a   *)
(* simulation answers, also with a series shorter than the one before, and *)
(* every repaint of a display frame draw the arrows of an entry of the     *)
(* stored series and leave the cursor in [0, length).  With an empty       *)
(* series a repaint draws nothing, moves and ages no particle and leaves   *)
(* the cursor where it was.                                                *)
(***************************************************************************)
C33_SeriesReadInRange ==
    [][/\ (\/ lastOp' = "fluxReturn" /\ Len(loops') > Len(loops)
           \/ lastOp' = "frame" /\ loops # <<>>
                /\ \A i \in DOMAIN loops : ~loops[i])
          => IF windSeries' = <<>>
             THEN /\ canvas' = <<>>
                  /\ flowFrame' = flowFrame
                  /\ lastOp' = "frame" => particleArray' = particleArray
             ELSE /\ flowFrame' \in 0..(Len(windSeries') - 1)
                  /\ DOMAIN canvas' = DOMAIN particleArray'
                  /\ \E k \in 1..Len(windSeries') :
                        \A i \in DOMAIN canvas' :
                           /\ canvas'[i].heading
                                 = (windSeries'[k].direction_deg + 180) % 360
                           /\ canvas'[i].len
                                 = IF windSeries'[k].speed_ms < 2 * 18
                                   THEN windSeries'[k].speed_ms ELSE 2 * 18]_vars

\* a second run has replaced a stored series by the one-entry series and its
\* repaint has drawn the arrows of that entry, with two loops alive
C33_Witness ==
    /\ lastOp = "fluxReturn"
    /\ lastResp = "series1"
    /\ Len(loops) = 2
    /\ results.id = 3
    /\ flowFrame = 0
    /\ canvas # <<>>
    /\ \A i \in DOMAIN canvas : canvas[i] = [heading |-> 270, len |-> 4]

\* the ids addHighlightLayer registers
HighlightIds == {"highlight"} \cup HighlightLayers

\* the commands cs, issued with the ids in reg registered, add no highlight
\* id that is registered at that moment
RECURSIVE AddsOnlyAbsent(_, _)
AddsOnlyAbsent(cs, reg) ==
    IF cs = <<>> THEN TRUE
    ELSE LET c == Head(cs)
         IN  CASE c[1] \in {"addSource", "addLayer"}
                    -> /\ c[2] \in HighlightIds => c[2] \notin reg
                       /\ AddsOnlyAbsent(Tail(cs), reg \cup {c[2]})
               [] c[1] \in {"removeSource", "removeLayer"}
                    -> AddsOnlyAbsent(Tail(cs), reg \ {c[2]})
               [] c[1] = "setStyle"
                    -> AddsOnlyAbsent(Tail(cs), {})
               [] OTHER -> AddsOnlyAbsent(Tail(cs), reg)

(***************************************************************************)
(* C34.  Between handler executions the "highlight" source and the two     *)
(* highlight layers are all registered or all absent, and no handler adds  *)
(* a highlight source or layer id that is registered at that moment: the   *)
(* removals of addHighlightLayer and of resetGlobe come first.  (Checked   *)
(* for B under SpecStyleB; it holds for F under SpecF as well.)            *)
(***************************************************************************)
C34_HighlightAllOrNone ==
    [][/\ \/ "highlight" \in sources' /\ HighlightLayers \subseteq layers'
          \/ "highlight" \notin sources' /\ layers' \cap HighlightLayers = {}
       /\ AddsOnlyAbsent(cmds', (sources \cup layers) \cap HighlightIds)]_vars

\* the boundary of a second selection has replaced a registered highlight
C34_Witness ==
    /\ lastOp = "boundaryReturn"
    /\ lastResp = "geojson"
    /\ \E i \in DOMAIN cmds : cmds[i] = Cmd("removeSource", "highlight")
    /\ \E i \in DOMAIN cmds : cmds[i] = Cmd("addSource", "highlight")
    /\ "highlight" \in sources
    /\ HighlightLayers \subseteq layers

(***************************************************************************)
(* C35.  At most one selection marker is attached to the map at any time:  *)
(* a location selection removes the marker of the selection before and     *)
(* then attaches a new one, which is the only marker afterwards, and after *)
(* resetGlobe no marker is attached.                                       *)
(***************************************************************************)
C35_OneMarker ==
    [][/\ Cardinality(markers') <= 1
       /\ lastOp' = "result"
          => /\ markerRef' \notin markers
             /\ markers' = {markerRef'}
             /\ markers # {} => cmds'[1][1] = "marker.remove"
             /\ cmds'[Len(cmds')][1] = "marker.addTo"
       /\ lastOp' = "resetGlobe" => markers' = {}]_vars

\* a second selection has replaced the marker of the first
C35_Witness ==
    /\ lastOp = "result"
    /\ markerRef # NoMarker
    /\ markerRef.id = 2
    /\ markers = {markerRef}
    /\ cmds[1][1] = "marker.remove"

\* the basemap style a layer button of A stands for; "buildings" are drawn
\* on the satellite style
StyleOfLayerA(layer) ==
    IF layer = "buildings" THEN "satellite" ELSE layer

(***************************************************************************)
(* C36.  A "style.load" handler registered by an earlier handleLayerChange *)
(* call never overrides a later style choice: whenever a delivery of       *)
(* "style.load" requests a basemap style of the engine, it is the style of *)
(* the layer button clicked last (activeLayer).                            *)
(***************************************************************************)
C36_HandlerKeepsLaterChoice ==
    [][lastOp' = "style.load"
       => \A i \in DOMAIN cmds' :
             cmds'[i][1] = "setStyle" => cmds'[i][2] = StyleOfLayerA(activeLayer')]_vars

(***************************************************************************)
(* C37.  Whatever the backend answered and however the wind-speed slider   *)
(* was moved, the displayed result is the raw result scaled by             *)
(* windSpeed / 2 (speeds are in half m/s here, so displayed * 4 = raw *    *)
(* windSpeed): the net flux and every series entry, never a scaled value   *)
(* scaled again, and equal to the raw values at windSpeed = 2 m/s.  The    *)
(* ratio is the scaled net flux over the raw demand.  A null or error raw  *)
(* result is displayed unchanged.                                          *)
(***************************************************************************)
C37_ScaledFromRaw ==
    IF rawResults.kind # "data"
    THEN resultsF = rawResults
    ELSE /\ resultsF.kind = "data"
         /\ resultsF.net_flux_L * 4 = rawResults.net_flux_L * windSpeed
         /\ Len(resultsF.daily_flux_series) = Len(rawResults.daily_flux_series)
         /\ \A i \in DOMAIN rawResults.daily_flux_series :
               /\ resultsF.daily_flux_series[i].date
                     = rawResults.daily_flux_series[i].date
               /\ resultsF.daily_flux_series[i].flux_L * 4
                     = rawResults.daily_flux_series[i].flux_L * windSpeed
         /\ resultsF.flux_to_demand_ratio
               = [num |-> resultsF.net_flux_L, den |-> rawResults.demand_L]
         /\ resultsF.demand_L = rawResults.demand_L
         /\ windSpeed = 4
               => /\ resultsF.net_flux_L = rawResults.net_flux_L
                  /\ resultsF.daily_flux_series = rawResults.daily_flux_series

\* the slider was moved to 6 m/s with a result on display: three times the
\* raw net flux of -40
C37_Witness ==
    /\ lastOp = "setWindSpeed"
    /\ windSpeed = 12
    /\ rawResults.kind = "data"
    /\ rawResults.net_flux_L = 0 - 40
    /\ resultsF.net_flux_L = 0 - 120
    /\ resultsF.flux_to_demand_ratio = [num |-> 0 - 120, den |-> 12]

(***************************************************************************)
(* C38.  For the WindLayer, after initializeState and any number of        *)
(* updateParticles calls every particle has -180 <= lon <= 180 and         *)
(* -90 <= lat <= 90 (in half degrees here), and the number of particles is *)
(* the one initializeState created.                                        *)
(***************************************************************************)
C38_ParticlesOnGlobe ==
    [][/\ \A i \in DOMAIN particles' :
             /\ particles'[i].lon \in (0 - 360)..360
             /\ particles'[i].lat \in (0 - 180)..180
       /\ lastOp' = "initializeState" => Len(particles') = numParticles
       /\ lastOp' = "updateParticles" => Len(particles') = Len(particles)]_vars

\* a particle has just been wrapped from the eastern edge to the western
\* side and from the north pole to the south pole
C38_Witness ==
    /\ lastOp = "updateParticles"
    /\ nUpdates > 1
    /\ particles[1].lon = 0 - 359
    /\ particles[1].lat = 0 - 180

=============================================================================
